---- MODULE Spec2Model ----
(***************************************************************************)
(* Model of the AT request/response engine of the Iridium SBD driver       *)
(* (IridiumController in src/src/index.ts): the single in-flight command   *)
(* slot, the inbound line handler, the per-command timer, and the callers  *)
(* that go through #execute.                                               *)
(*                                                                         *)
(* Text is modelled as a sequence of one-character strings, a Buffer as a  *)
(* sequence of bytes, a regular expression by the fields that decide its   *)
(* test().  A promise created by #execute is identified by the number of   *)
(* the #execute call that created it.                                      *)
(***************************************************************************)
EXTENDS Integers, Sequences, FiniteSets, TLC

\* Bounds of the exploration.
MaxCmds == 3
MaxBuffered == 2
MaxPayload == 340

\* Program constants.
DEFAULT_SIMPLE_TIMEOUT_MS == 2000
DEFAULT_SESSION_TIMEOUT_MS == 60000
INDEFINITE_TIMEOUT == -1

(***************************************************************************)
(* Regular expressions.  pre: the literal the line must start with; cls:   *)
(* the character class that must follow it ({} when there is none); end:   *)
(* a $ right after the literal; more: a .+ after the literal; neg: the     *)
(* literal of a negative lookahead (?!..) at the start (<<>> when there is *)
(* none).                                                                  *)
(***************************************************************************)
Rx(pre, cls, end, more) ==
  [def |-> TRUE, pre |-> pre, cls |-> cls, end |-> end, more |-> more,
   neg |-> <<>>]

UndefinedRegex ==
  [def |-> FALSE, pre |-> <<>>, cls |-> {}, end |-> FALSE, more |-> FALSE,
   neg |-> <<>>]

OK_REGEXP == Rx(<<"O", "K">>, {}, TRUE, FALSE)

ANY_REGEXP == Rx(<<>>, {}, FALSE, TRUE)

ERROR_REGEXP == Rx(<<"E", "R", "R", "O", "R">>, {}, FALSE, FALSE)

SBDRING_REGEXP == Rx(<<"S", "B", "D", "R", "I", "N", "G">>, {}, FALSE, FALSE)

READY_REGEXP == Rx(<<"R", "E", "A", "D", "Y">>, {}, FALSE, FALSE)

RESULT_REGEXP == Rx(<<>>, {"0", "1", "2", "3"}, FALSE, FALSE)

FLAG_REGEXP == Rx(<<>>, {"0", "1"}, FALSE, FALSE)

\* Variant: any report of the signal quality matches.
SIGNAL_REGEXP_ANY(signalQuality) ==
  Rx(<<"+", "C", "I", "E", "V", ":", "0", ",">>,
     {"0", "1", "2", "3", "4", "5"}, FALSE, FALSE)

\* new RegExp(`^\\+CIEV:0,[${signalQuality}-5]`) of waitForNetwork.
SIGNAL_REGEXP(signalQuality) ==
  Rx(<<"+", "C", "I", "E", "V", ":", "0", ",">>,
     {<<"0", "1", "2", "3", "4", "5">>[q + 1] : q \in signalQuality..5},
     FALSE, FALSE)

\* /^\+SBDIX:.+/ of initiateSessionExtended.
SBDIX_REGEXP == Rx(<<"+", "S", "B", "D", "I", "X", ":">>, {}, FALSE, TRUE)

\* /^(?!\+SBDRT:).+/ of readShortBurstTextData.
SBDRT_REGEXP ==
  [Rx(<<>>, {}, FALSE, TRUE) EXCEPT
     !.neg = <<"+", "S", "B", "D", "R", "T", ":">>]

\* /^\+SBDMTA:[0-1]/ of getRingAlertEnabled.
SBDMTA_REGEXP ==
  Rx(<<"+", "S", "B", "D", "M", "T", "A", ":">>, {"0", "1"}, FALSE, FALSE)

\* /^\+CRIS:[0-1]/ of getRingIndicationStatus.
CRIS_REGEXP == Rx(<<"+", "C", "R", "I", "S", ":">>, {"0", "1"}, FALSE, FALSE)

startsWith(data, literal) ==
  /\ Len(data) >= Len(literal)
  /\ SubSeq(data, 1, Len(literal)) = literal

\* RegExp.prototype.test for the expressions above.
test(rx, data) ==
  /\ (rx.neg # <<>> => ~startsWith(data, rx.neg))
  /\ Len(data) >= Len(rx.pre)
  /\ SubSeq(data, 1, Len(rx.pre)) = rx.pre
  /\ (rx.cls # {} =>
        /\ Len(data) > Len(rx.pre)
        /\ data[Len(rx.pre) + 1] \in rx.cls)
  /\ (rx.end => Len(data) = Len(rx.pre))
  /\ (rx.more => Len(data) > Len(rx.pre))

(***************************************************************************)
(* Command descriptors (IridiumCommand).  kind says which of text and      *)
(* buffer is set; data holds it.                                           *)
(***************************************************************************)
TextCommand(name, text, timeoutMs, successRegex, bufferRegex) ==
  [name |-> name, kind |-> "text", data |-> text, timeoutMs |-> timeoutMs,
   successRegex |-> successRegex, bufferRegex |-> bufferRegex,
   errorRegex |-> UndefinedRegex]

BufferCommand(name, buffer, timeoutMs, successRegex, bufferRegex) ==
  [name |-> name, kind |-> "buffer", data |-> buffer, timeoutMs |-> timeoutMs,
   successRegex |-> successRegex, bufferRegex |-> bufferRegex,
   errorRegex |-> UndefinedRegex]

\* The value of this.command when no command is in flight.
NoCmd == [id |-> 0]

\* Catalog methods the callers of the model use.
echoOff(timeoutMs) ==
  TextCommand("echoOff", <<"A", "T", "E", "0">>, timeoutMs,
              OK_REGEXP, UndefinedRegex)

getSoftwareRevisionLevel(timeoutMs) ==
  TextCommand("getSoftwareRevisionLevel", <<"A", "T", "I", "3">>, timeoutMs,
              OK_REGEXP, ANY_REGEXP)

flowControlDisable(timeoutMs) ==
  TextCommand("flowControlDisable", <<"A", "T", "&", "K", "0">>, timeoutMs,
              OK_REGEXP, UndefinedRegex)

indicatorEventReportingDisable(timeoutMs) ==
  TextCommand("indicatorEventReportingDisable",
              <<"A", "T", "+", "C", "I", "E", "R", "=", "1", ",", "0", ",",
                "0", ",", "0">>,
              timeoutMs, OK_REGEXP, UndefinedRegex)

clearBuffers(timeoutMs) ==
  TextCommand("clearBuffers", <<"A", "T", "+", "S", "B", "D", "D", "2">>,
              timeoutMs, OK_REGEXP, FLAG_REGEXP)

autoRegistrationEnable(timeoutMs) ==
  TextCommand("autoRegistrationEnable",
              <<"A", "T", "+", "S", "B", "D", "A", "R", "E", "G", "=", "1">>,
              timeoutMs, OK_REGEXP, UndefinedRegex)

ringAlertEnable(timeoutMs) ==
  TextCommand("ringAlertEnable",
              <<"A", "T", "+", "S", "B", "D", "M", "T", "A", "=", "1">>,
              timeoutMs, OK_REGEXP, UndefinedRegex)

ringAlertDisable(timeoutMs) ==
  TextCommand("ringAlertDisable",
              <<"A", "T", "+", "S", "B", "D", "M", "T", "A", "=", "0">>,
              timeoutMs, OK_REGEXP, UndefinedRegex)

getRingAlertEnabled(timeoutMs) ==
  TextCommand("getRingAlertEnabled",
              <<"A", "T", "+", "S", "B", "D", "M", "T", "A", "?">>,
              timeoutMs, OK_REGEXP, SBDMTA_REGEXP)

transferMOBufferToMTBuffer(timeoutMs) ==
  TextCommand("transferMOBufferToMTBuffer",
              <<"A", "T", "+", "S", "B", "D", "T", "C">>,
              timeoutMs, OK_REGEXP, ANY_REGEXP)

readShortBurstBinaryData(timeoutMs) ==
  TextCommand("readShortBurstBinaryData",
              <<"A", "T", "+", "S", "B", "D", "R", "B">>,
              timeoutMs, OK_REGEXP, UndefinedRegex)

getRingIndicationStatus(timeoutMs) ==
  TextCommand("getRingIndicationStatus", <<"A", "T", "+", "C", "R", "I", "S">>,
              timeoutMs, OK_REGEXP, CRIS_REGEXP)

\* The commands of the send pipeline.
writeShortBurstTextData(text, timeoutMs) ==
  TextCommand("writeShortBurstTextData",
              <<"A", "T", "+", "S", "B", "D", "W", "T", "=">> \o text,
              timeoutMs, OK_REGEXP, UndefinedRegex)

\* The first command of waitForNetwork.
waitForNetwork(signalQuality, timeoutMs) ==
  TextCommand("waitForNetwork",
              <<"A", "T", "+", "C", "I", "E", "R", "=", "1", ",", "1", ",", "0", ",", "0">>,
              timeoutMs, SIGNAL_REGEXP(signalQuality), UndefinedRegex)

initiateSessionExtended(timeoutMs) ==
  TextCommand("initiateSessionExtended",
              <<"A", "T", "+", "S", "B", "D", "I", "X", "A">>,
              timeoutMs, OK_REGEXP, SBDIX_REGEXP)

readShortBurstTextData(timeoutMs) ==
  TextCommand("readShortBurstTextData",
              <<"A", "T", "+", "S", "B", "D", "R", "T">>,
              timeoutMs, OK_REGEXP, SBDRT_REGEXP)

clearMOBuffer(timeoutMs) ==
  TextCommand("clearMOBuffer",
              <<"A", "T", "+", "S", "B", "D", "D", "0">>,
              timeoutMs, OK_REGEXP, FLAG_REGEXP)

clearMTBuffer(timeoutMs) ==
  TextCommand("clearMTBuffer",
              <<"A", "T", "+", "S", "B", "D", "D", "1">>,
              timeoutMs, OK_REGEXP, FLAG_REGEXP)

\* Number.prototype.toString for a buffer length.
Digit(d) == <<"0", "1", "2", "3", "4", "5", "6", "7", "8", "9">>[d + 1]

RECURSIVE toString(_)
toString(n) ==
  IF n < 10 THEN <<Digit(n)>> ELSE toString(n \div 10) \o <<Digit(n % 10)>>

isDigit(c) == \E d \in 0..9 : Digit(d) = c

\* \d+ at position p of s: the length of the run of digits that starts there.
RECURSIVE digitRun(_, _)
digitRun(s, p) ==
  IF p <= Len(s) /\ isDigit(s[p]) THEN 1 + digitRun(s, p + 1) ELSE 0

\* parseInt of the n digits of s that start at position p.
RECURSIVE parseDigits(_, _, _)
parseDigits(s, p, n) ==
  IF n = 0 THEN 0
  ELSE parseDigits(s, p, n - 1) * 10
         + (CHOOSE d \in 0..9 : Digit(d) = s[p + n - 1])

\* The literal is in s at position p.
literalAt(s, p, literal) ==
  /\ p + Len(literal) - 1 <= Len(s)
  /\ SubSeq(s, p, p + Len(literal) - 1) = literal

\* (\d+), (\d+), ... with k groups, at position p of s: the numbers of the
\* groups, or <<>> when s does not match there.
RECURSIVE matchGroups(_, _, _)
matchGroups(s, p, k) ==
  LET n == digitRun(s, p)
  IN  IF n = 0 THEN <<>>
      ELSE IF k = 1 THEN <<parseDigits(s, p, n)>>
      ELSE IF ~literalAt(s, p + n, <<",", " ">>) THEN <<>>
      ELSE LET rest == matchGroups(s, p + n + 2, k - 1)
           IN  IF rest = <<>> THEN <<>>
               ELSE <<parseDigits(s, p, n)>> \o rest

\* result.split(separator)[0]: what comes before the first separator, all of
\* result when it has none.
splitHead(result, separator) ==
  LET at == {p \in 1..Len(result) : result[p] = separator}
  IN  IF at = {} THEN result
      ELSE SubSeq(result, 1, (CHOOSE p \in at : \A q \in at : p <= q) - 1)

\* getRingAlertEnabled: result.split(':')[0] === '1'
ringAlertFlag(result) == splitHead(result, ":") = <<"1">>

\* getRingIndicationStatus: result.split(',')[1][0], the first character of
\* what stands between the first comma and the next; <<>> stands for the
\* undefined a field of no characters gives, and "TypeError" for the
\* exception a result without a comma raises.
ringIndicationStatus(result) ==
  IF \A p \in 1..Len(result) : result[p] # ","
  THEN "TypeError"
  ELSE LET rest == SubSeq(result, Len(splitHead(result, ",")) + 2,
                          Len(result))
           field == splitHead(rest, ",")
       IN  IF field = <<>> THEN <<>> ELSE <<field[1]>>

SBDIX_PREFIX == <<"+", "S", "B", "D", "I", "X", ":", " ">>

\* result.match(/\+SBDIX: (\d+), (\d+), (\d+), (\d+), (\d+), (\d+)/) with
\* parseInt of each group: the six numbers of the first match in result, or
\* <<>> for null.
matchSBDIX(result) ==
  LET at(p) == IF literalAt(result, p, SBDIX_PREFIX)
               THEN matchGroups(result, p + Len(SBDIX_PREFIX), 6)
               ELSE <<>>
      starts == {p \in 1..Len(result) : at(p) # <<>>}
  IN  IF starts = {} THEN <<>>
      ELSE at(CHOOSE p \in starts : \A q \in starts : p <= q)

lookupMTStatus(mtStatus) ==
  CASE mtStatus = 0 -> "No MT messages are pending"
    [] mtStatus = 1 -> "MT message was received during the MO transfer"
    [] OTHER -> "Error occured while checking the MT mailbox or receiving a message on the GSS"

lookupMOStatus(moStatus) ==
  CASE moStatus = 0 -> "MO transfer was successful"
    [] moStatus = 1 -> "MO transfer was successful, but the MT message in the queue was to big to be transferred"
    [] moStatus = 2 -> "MO transfer was successful, but the requested location update was no accepted"
    [] moStatus \in {3, 4} -> "MO transfer was successful"
    [] moStatus = 10 -> "MO transfer failed. GSS reported that the call did not complete in the allowed time"
    [] moStatus = 11 -> "MO transfer failed. MO message queue at the GSS is full"
    [] moStatus = 12 -> "MO transfer failed. MO message has too many segments"
    [] moStatus = 13 -> "MO transfer failed. GSS reported that the session did not complete"
    [] moStatus = 14 -> "MO transfer failed. Invalid segment size"
    [] moStatus = 15 -> "MO transfer failed. Access is denied"
    [] moStatus = 16 -> "MO transfer failed. ISU has been locked and may not make SBD calls (see +CULK command)"
    [] moStatus = 17 -> "MO transfer failed. Gateway not responding (local session timeout)"
    [] moStatus = 18 -> "MO transfer failed. Connection lost (RF drop)"
    [] moStatus = 19 -> "MO transfer failed. Link failure (A protocol error caused termination of the call)"
    [] moStatus = 32 -> "MO transfer failed. No network service, unable to initiate call"
    [] moStatus = 33 -> "MO transfer failed. Antenna fault, unable to initiate call"
    [] moStatus = 34 -> "MO transfer failed. Radio is disabled, unable to initiate call (see *Rn command)"
    [] moStatus = 35 -> "MO transfer failed. ISU is busy, unable to initiate call"
    [] moStatus = 36 -> "MO transfer failed. Try later, must wait 3 minutes since last registration"
    [] moStatus = 37 -> "MO transfer failed. SBD service is temporarily disabled"
    [] moStatus = 38 -> "MO transfer failed. Try later, traffic management period (see +SBDLOE command)"
    [] moStatus = 64 -> "MO transfer failed. Band violation (attempt to transmit outside permitted frequency band"
    [] moStatus = 65 -> "MO transfer failed. PLL lock failure; hardware error during attempted transmit"
    [] OTHER -> "MO transfer failed. Response code not specified in specification"

\* The SBDSessionResponse built from the six numbers: the text of the MT
\* status is looked up with the MO status.
SessionResponse(data) ==
  [moStatus |-> data[1],
   moStatusText |-> lookupMOStatus(data[1]),
   moMessageSequenceNumber |-> data[2],
   mtStatus |-> data[3],
   mtStatusText |-> lookupMTStatus(data[1]),
   mtMessageSequenceNumber |-> data[4],
   mtMessageLength |-> data[5],
   mtMessagesQueued |-> data[6]]

\* The loop sum += buffer[i]: the sum of the bytes from lo to hi, by halves.
RECURSIVE sumRange(_, _, _)
sumRange(buffer, lo, hi) ==
  IF lo > hi THEN 0
  ELSE IF lo = hi THEN buffer[lo]
  ELSE LET mid == (lo + hi) \div 2
       IN  sumRange(buffer, lo, mid) + sumRange(buffer, mid + 1, hi)

byteSum(buffer) == sumRange(buffer, 1, Len(buffer))

\* Variant: the second lowest byte of the sum is not masked.
withChecksumNoMask(buffer) ==
  LET sum == byteSum(buffer)
      last == sum % 256
      shifted == sum \div 256
  IN  buffer \o <<shifted, last>>

\* calculateChecksum of utils.ts: sum & 0xff into checksum[1], then sum >>= 8
\* and sum & 0xff into checksum[0].
calculateChecksum(buffer) ==
  LET sum == byteSum(buffer)
      low == sum % 256
      shifted == sum \div 256
  IN  <<shifted % 256, low>>

\* writeBinaryShortBurstData: the message followed by the two low bytes of
\* the sum of its bytes, the higher one first.
withChecksum(buffer) ==
  LET sum == byteSum(buffer)
      last == sum % 256
      shifted == sum \div 256
  IN  buffer \o <<shifted % 256, last>>

\* The two commands of writeBinaryShortBurstData.
binaryWriteStart(buffer, timeoutMs) ==
  TextCommand("writeBinaryShortBurstData",
              <<"A", "T", "+", "S", "B", "D", "W", "B", "=">>
                \o toString(Len(buffer)),
              timeoutMs, READY_REGEXP, UndefinedRegex)

binaryWriteData(buffer) ==
  BufferCommand("writeBinaryShortBurstData", withChecksum(buffer),
                INDEFINITE_TIMEOUT, RESULT_REGEXP, RESULT_REGEXP)

\* The commands init() issues, in order.
BootSequence ==
  <<flowControlDisable(DEFAULT_SIMPLE_TIMEOUT_MS),
    echoOff(DEFAULT_SIMPLE_TIMEOUT_MS),
    indicatorEventReportingDisable(DEFAULT_SIMPLE_TIMEOUT_MS),
    clearBuffers(DEFAULT_SIMPLE_TIMEOUT_MS),
    autoRegistrationEnable(DEFAULT_SIMPLE_TIMEOUT_MS),
    ringAlertEnable(DEFAULT_SIMPLE_TIMEOUT_MS)>>

\* The messages callers write in the model.
Buffers == {<<65, 66, 67>>}

\* Messages of the shortest and the longest length, with the bytes that
\* bring the sum to its least and its greatest, and with mixed bytes.
Fill(n, b) == [i \in 1..n |-> b]

Ramp(n) == [i \in 1..n |-> (i * 7) % 256]

PayloadLengths == {1, 2, 258, MaxPayload}

Payloads ==
  {Fill(n, b) : n \in PayloadLengths, b \in {0, 1, 255}}
    \cup {Ramp(n) : n \in PayloadLengths}

CatalogCalls(timeoutMs) == {getSoftwareRevisionLevel(timeoutMs)}

\* The timeoutMs option a caller may pass to a catalog method.
TimeoutOptions == {DEFAULT_SIMPLE_TIMEOUT_MS, INDEFINITE_TIMEOUT}

(***************************************************************************)
(* State.                                                                  *)
(***************************************************************************)
VARIABLES
  isOpen,      \* this.#serial.isOpen
  command,     \* this.command, with the number of its #execute call
  response,    \* this.#response
  resolveFn,   \* this.resolveFn: the promise it resolves, 0 when deleted
  rejectFn,    \* this.rejectFn: the promise it rejects, 0 when deleted
  timeoutFn,   \* this.#timeoutFn: the last handle setTimeout returned
  timers,      \* the handles whose timer is armed
  promises,    \* the promise each #execute call returned
  wire,        \* the writes the modem has received and not answered in full
  lineFor,     \* the call whose answer the line of this step belongs to, or 0
  linkUp,      \* whether the serial link carries bytes
  emitted,     \* the events the last handler emitted (log levels, ring-alert)
  nextId,      \* number of the next #execute call
  boot,        \* the init() in progress: its state, step and pending promise
  wb,          \* the writeBinaryShortBurstData in progress, likewise
  snd          \* the sendTextMessage / sendBinaryMessage in progress, likewise

vars == <<isOpen, command, response, resolveFn, rejectFn, timeoutFn, timers,
          promises, wire, lineFor, linkUp, emitted, nextId, boot, wb,
          snd>>

Ids == 1..MaxCmds

\* What a promise settles with: err names the failure ("" on success), text
\* is the string passed to resolve or reject, line is the inbound line whose
\* handling made the call (<<>> when no line did).
Value(err, text, line) == [err |-> err, text |-> text, line |-> line]

NoValue == Value("", <<>>, <<>>)

NoPromise == [state |-> "none", value |-> NoValue, calls |-> 0]

Settled(i) == promises[i].state \in {"resolved", "rejected"}

\* The controller's fields as one record, with the wire; the emitted events
\* and the mark of the line delivered are cleared: what a handler starts
\* from.
Ctl ==
  [isOpen |-> isOpen, command |-> command, response |-> response,
   resolveFn |-> resolveFn, rejectFn |-> rejectFn, timeoutFn |-> timeoutFn,
   timers |-> timers, promises |-> promises, wire |-> wire,
   lineFor |-> 0, emitted |-> <<>>]

Becomes(s) ==
  /\ isOpen' = s.isOpen
  /\ command' = s.command
  /\ response' = s.response
  /\ resolveFn' = s.resolveFn
  /\ rejectFn' = s.rejectFn
  /\ timeoutFn' = s.timeoutFn
  /\ timers' = s.timers
  /\ promises' = s.promises
  /\ wire' = s.wire
  /\ lineFor' = s.lineFor
  /\ emitted' = s.emitted

(***************************************************************************)
(* The controller's methods, as functions from controller state to         *)
(* controller state.                                                       *)
(***************************************************************************)
emit(s, event) == [s EXCEPT !.emitted = Append(@, event)]

\* this.#logger.log(level, ...): a 'log' event.  The model records the
\* warnings and errors; info and debug lines are not part of its state.
logger(s, level) ==
  IF level \in {"WARN", "ERROR", "CRITICAL"} THEN emit(s, level) ELSE s

\* A call of the resolve or reject function of promise id: the first call
\* settles the promise, a later one is counted and changes nothing.
settle(s, id, state, value) ==
  LET p == s.promises[id]
  IN  [s EXCEPT !.promises[id] =
         IF p.state = "pending"
         THEN [state |-> state, value |-> value, calls |-> p.calls + 1]
         ELSE [p EXCEPT !.calls = p.calls + 1]]

\* Variant: the context is cleared and the timer left armed.
clearContextKeepTimer(s) ==
  [s EXCEPT !.response = <<>>,
            !.resolveFn = 0,
            !.rejectFn = 0,
            !.command = NoCmd]

\* Variant: the response is left as it is.
clearContextKeepResponse(s) ==
  [s EXCEPT !.resolveFn = 0,
            !.rejectFn = 0,
            !.command = NoCmd,
            !.timers = @ \ {s.timeoutFn}]

clearContext(s) ==
  [s EXCEPT !.response = <<>>,
            !.resolveFn = 0,
            !.rejectFn = 0,
            !.command = NoCmd,
            !.timers = @ \ {s.timeoutFn}]

\* Variant: the line is put before the lines buffered so far.
appendLineFront(resp, data) ==
  IF resp = <<>> THEN data ELSE data \o <<"\n">> \o resp

\* The accumulated response after data was appended to it.
appendLine(resp, data) ==
  IF resp = <<>> THEN data ELSE resp \o <<"\n">> \o data

\* command.text !== data
notEcho(cmd, data) == cmd.kind # "text" \/ cmd.data # data

\* Variant: a command without a buffer pattern buffers every line.
bufferedByDefault(s, data) ==
  IF /\ ~s.command.bufferRegex.def \/ test(s.command.bufferRegex, data)
     /\ notEcho(s.command, data)
  THEN [s EXCEPT !.response = appendLine(s.response, data)]
  ELSE s

buffered(s, data) ==
  IF /\ s.command.bufferRegex.def
     /\ test(s.command.bufferRegex, data)
     /\ notEcho(s.command, data)
  THEN [s EXCEPT !.response = appendLine(s.response, data)]
  ELSE s

errorRegexOf(cmd) ==
  IF cmd.errorRegex.def THEN cmd.errorRegex ELSE ERROR_REGEXP

\* Variant: the ring-alert test comes after the line was buffered.
handleDataRingLast(s0, data) ==
  LET s == logger(s0, "INFO")
  IN  IF s.command = NoCmd
      THEN IF test(SBDRING_REGEXP, data)
           THEN emit(logger(s, "DEBUG"), "ring-alert")
           ELSE logger(s, "WARN")
      ELSE IF test(errorRegexOf(s.command), data)
      THEN clearContext(
             settle(logger(s, "DEBUG"), s.rejectFn, "rejected",
                    Value("CommandError", s.response, data)))
      ELSE LET b == buffered(s, data)
           IN  IF test(SBDRING_REGEXP, data)
               THEN emit(logger(b, "DEBUG"), "ring-alert")
               ELSE IF test(b.command.successRegex, data)
               THEN clearContext(
                      settle(logger(b, "DEBUG"), b.resolveFn, "resolved",
                             Value("", b.response, data)))
               ELSE b

\* Variant: the line is buffered before the error test.
handleDataBufferFirst(s0, data) ==
  LET s == logger(s0, "INFO")
  IN  IF test(SBDRING_REGEXP, data)
      THEN emit(logger(s, "DEBUG"), "ring-alert")
      ELSE IF s.command = NoCmd
      THEN logger(s, "WARN")
      ELSE LET b == buffered(s, data)
           IN  IF test(errorRegexOf(b.command), data)
               THEN clearContext(
                      settle(logger(b, "DEBUG"), b.rejectFn, "rejected",
                             Value("CommandError", b.response, data)))
               ELSE IF test(b.command.successRegex, data)
               THEN clearContext(
                      settle(logger(b, "DEBUG"), b.resolveFn, "resolved",
                             Value("", b.response, data)))
               ELSE b

\* Variant: the success test comes before the line is buffered.
handleDataSuccessFirst(s0, data) ==
  LET s == logger(s0, "INFO")
  IN  IF test(SBDRING_REGEXP, data)
      THEN emit(logger(s, "DEBUG"), "ring-alert")
      ELSE IF s.command = NoCmd
      THEN logger(s, "WARN")
      ELSE IF test(errorRegexOf(s.command), data)
      THEN clearContext(
             settle(logger(s, "DEBUG"), s.rejectFn, "rejected",
                    Value("CommandError", s.response, data)))
      ELSE IF test(s.command.successRegex, data)
      THEN clearContext(
             settle(logger(s, "DEBUG"), s.resolveFn, "resolved",
                    Value("", s.response, data)))
      ELSE buffered(s, data)

\* #handleData(data).
handleData(s0, data) ==
  LET s == logger(s0, "INFO")
  IN  IF test(SBDRING_REGEXP, data)
      THEN emit(logger(s, "DEBUG"), "ring-alert")
      ELSE IF s.command = NoCmd
      THEN logger(s, "WARN")
      ELSE IF test(errorRegexOf(s.command), data)
      THEN clearContext(
             settle(logger(s, "DEBUG"), s.rejectFn, "rejected",
                    Value("CommandError", s.response, data)))
      ELSE LET b == buffered(s, data)
           IN  IF test(b.command.successRegex, data)
               THEN clearContext(
                      settle(logger(b, "DEBUG"), b.resolveFn, "resolved",
                             Value("", b.response, data)))
               ELSE b

\* The callback #execute hands to setTimeout for promise id.
timeoutCallback(s, id) ==
  settle(clearContext(logger(s, "WARN")), id, "rejected",
         Value("Timeout", <<>>, <<>>))

\* Variant: the test of timeoutMs is inverted.
armTimerInverted(s, id, cmd) ==
  IF cmd.timeoutMs < 0
  THEN [s EXCEPT !.timeoutFn = id, !.timers = @ \cup {id}]
  ELSE s

\* setTimeout in #execute: the handle is the number of the call.
armTimer(s, id, cmd) ==
  IF cmd.timeoutMs > 0
  THEN [s EXCEPT !.timeoutFn = id, !.timers = @ \cup {id}]
  ELSE s

CRLF == <<"\r", "\n">>

\* this.#serial.write: ioOk is whether the transport took the bytes; a
\* failure surfaces as the port's 'error' event, which the constructor logs.
serialWrite(s, id, cmd, ioOk) ==
  LET bytes == IF cmd.kind = "buffer" THEN cmd.data ELSE cmd.data \o CRLF
      logged == IF cmd.kind = "buffer"
                THEN logger(logger(logger(s, "INFO"), "INFO"), "INFO")
                ELSE logger(logger(s, "INFO"), "INFO")
  IN  IF ioOk
      THEN [logged EXCEPT !.wire =
              Append(@, [id |-> id, cmd |-> cmd, bytes |-> bytes,
                         said |-> 0])]
      ELSE logger(logged, "ERROR")

\* Variant: no test for a command in flight.
executeNoBusyCheck(s0, id, cmd, ioOk) ==
  LET s == [s0 EXCEPT !.promises[id] = [NoPromise EXCEPT !.state = "pending"]]
  IN  IF ~s.isOpen
      THEN settle(s, id, "rejected", Value("NotOpen", <<>>, <<>>))
      ELSE LET installed ==
                 [s EXCEPT !.command = cmd @@ [id |-> id],
                           !.rejectFn = id,
                           !.resolveFn = id]
           IN  serialWrite(armTimer(installed, id, cmd), id, cmd, ioOk)

\* Variant: the test for an open port comes before the test for a command
\* in flight.
executeOpenFirst(s0, id, cmd, ioOk) ==
  LET s == [s0 EXCEPT !.promises[id] = [NoPromise EXCEPT !.state = "pending"]]
  IN  IF ~s.isOpen
      THEN settle(s, id, "rejected", Value("NotOpen", <<>>, <<>>))
      ELSE IF s.command # NoCmd
      THEN settle(logger(s, "WARN"), id, "rejected",
                  Value("Busy", <<>>, <<>>))
      ELSE LET installed ==
                 [s EXCEPT !.command = cmd @@ [id |-> id],
                           !.rejectFn = id,
                           !.resolveFn = id]
           IN  serialWrite(armTimer(installed, id, cmd), id, cmd, ioOk)

\* #execute(command), call number id.
execute(s0, id, cmd, ioOk) ==
  LET s == [s0 EXCEPT !.promises[id] = [NoPromise EXCEPT !.state = "pending"]]
  IN  IF s.command # NoCmd
      THEN settle(logger(s, "WARN"), id, "rejected",
                  Value("Busy", <<>>, <<>>))
      ELSE IF ~s.isOpen
      THEN settle(s, id, "rejected", Value("NotOpen", <<>>, <<>>))
      ELSE LET installed ==
                 [s EXCEPT !.command = cmd @@ [id |-> id],
                           !.rejectFn = id,
                           !.resolveFn = id]
           IN  serialWrite(armTimer(installed, id, cmd), id, cmd, ioOk)

(***************************************************************************)
(* The modem: it answers the commands written to it in the order they were *)
(* written, with lines of the shapes the catalog expects for the command.  *)
(***************************************************************************)
LINE_OK == <<"O", "K">>

LINE_ERROR == <<"E", "R", "R", "O", "R">>

LINE_SBDRING == <<"S", "B", "D", "R", "I", "N", "G">>

LINE_READY == <<"R", "E", "A", "D", "Y">>

LINE_VERSION == <<"T", "A", "1", "6">>

\* +CIEV:0,q: a report of the signal quality q.
LINE_CIEV(q) == <<"+", "C", "I", "E", "V", ":", "0", ",">> \o toString(q)

SignalReports == {0, 2, 4}

\* +SBDIX: <MO status>, <MOMSN>, <MT status>, <MTMSN>, <MT length>, <MT queued>
LINE_SBDIX(mo, mt) ==
  <<"+", "S", "B", "D", "I", "X", ":", " ">> \o toString(mo) \o <<",", " ", "4", "2", ",", " ">>
    \o toString(mt) \o <<",", " ", "7", ",", " ", "1", "1", ",", " ", "0">>

SessionLines == {LINE_SBDIX(mo, mt) : mo \in {0, 4, 5, 18}, mt \in {0, 1, 2}}

\* +SBDMTA:<mode>: the ring alert mode.
LINE_SBDMTA(mode) ==
  <<"+", "S", "B", "D", "M", "T", "A", ":">> \o toString(mode)

\* SBDTC: Outbound SBD Copied to Inbound SBD: size = <n>, shortened to its
\* first and last fields.
LINE_SBDTC(n) ==
  <<"S", "B", "D", "T", "C", ":", " ", "s", "i", "z", "e", " ", "=", " ">>
    \o toString(n)

\* The character the parser hands on for a byte: the letter for the bytes of
\* the messages of the model, a name for a byte that has no letter.
fromCharCode(b) ==
  CASE b = 65 -> "A"
    [] b = 66 -> "B"
    [] b = 67 -> "C"
    [] b = 0 -> "NUL"
    [] b = 3 -> "ETX"
    [] OTHER -> "\\uFFFD"

\* The modem's answer to AT+SBDRB for the message in its MT buffer: the
\* length in two bytes, high byte first, the message and its checksum.
LINE_SBDRB(message) ==
  LET envelope == <<Len(message) \div 256, Len(message) % 256>>
                    \o withChecksum(message)
  IN  [i \in 1..Len(envelope) |-> fromCharCode(envelope[i])]

\* +CRIS:<tri>,<sri>: the telephony and the SBD ring indication status, of
\* three digits each.
LINE_CRIS(tri, sri) ==
  <<"+", "C", "R", "I", "S", ":", "0", "0">> \o toString(tri)
    \o <<",", "0", "0">> \o toString(sri)

LINE_SBDRT == <<"+", "S", "B", "D", "R", "T", ":">>

LINE_PAYLOAD == <<"W", "O", "R", "L", "D">>

ModemLines(cmd) ==
  CASE cmd.name = "getSoftwareRevisionLevel" ->
         {cmd.data, LINE_VERSION, LINE_OK, LINE_ERROR}
    [] cmd.name = "waitForNetwork" ->
         {LINE_OK, LINE_ERROR} \cup {LINE_CIEV(q) : q \in SignalReports}
    [] cmd.name = "initiateSessionExtended" ->
         SessionLines \cup {LINE_OK, LINE_ERROR}
    [] cmd.name = "readShortBurstTextData" ->
         {LINE_SBDRT, LINE_PAYLOAD, LINE_OK, LINE_ERROR}
    [] cmd.name \in {"clearMOBuffer", "clearMTBuffer"} ->
         {<<"0">>, <<"1">>, LINE_OK, LINE_ERROR}
    [] cmd.name = "writeBinaryShortBurstData" /\ cmd.kind = "text" ->
         {LINE_READY, LINE_ERROR}
    [] cmd.name = "writeBinaryShortBurstData" /\ cmd.kind = "buffer" ->
         {<<"0">>, <<"1">>, <<"2">>, <<"3">>, LINE_OK}
    [] cmd.name = "clearBuffers" -> {<<"0">>, <<"1">>, LINE_OK, LINE_ERROR}
    [] cmd.name = "getRingAlertEnabled" ->
         {LINE_SBDMTA(0), LINE_SBDMTA(1), LINE_OK, LINE_ERROR}
    [] cmd.name = "transferMOBufferToMTBuffer" ->
         {LINE_SBDTC(Len(b)) : b \in Buffers} \cup {LINE_OK, LINE_ERROR}
    [] cmd.name = "getRingIndicationStatus" ->
         {LINE_CRIS(0, sri) : sri \in {0, 1}} \cup {LINE_OK, LINE_ERROR}
    [] cmd.name = "readShortBurstBinaryData" ->
         {LINE_SBDRB(b) : b \in Buffers} \cup {LINE_OK, LINE_ERROR}
    [] OTHER -> {LINE_OK, LINE_ERROR}

(***************************************************************************)
(* Actions.                                                                *)
(***************************************************************************)
\* No writeBinaryShortBurstData has been called.  error is the message of
\* the Error the call was rejected with: its fixed part and what follows it.
NoWrite ==
  [pc |-> "idle", id |-> 0, buffer |-> <<>>, calls |-> 0, error |-> <<>>]

\* How a send settled: err names the failure ("" on success), from is the
\* #execute call whose rejection the failure is (0 when a .then threw it),
\* value holds the session response the promise or its error carries (<<>>
\* for undefined).
Outcome(state, err, from, value) ==
  [state |-> state, err |-> err, from |-> from, value |-> value]

\* No sendTextMessage or sendBinaryMessage has been called.  pc is the step
\* the send is at and id the #execute call the step waits for; issued lists
\* the commands the send has passed to #execute, result holds the session
\* response, readFailed the rejected call of the MT read, inbound the
\* messages emitted as inbound-message, listener the call a listener of that
\* event made, foreign the number of calls other callers made, mo the
\* message the modem holds in its MO buffer, where a specification follows
\* it.
NoSend ==
  [pc |-> "idle", kind |-> "none", id |-> 0, signalQuality |-> 0,
   issued |-> <<>>, result |-> <<>>, readFailed |-> 0, inbound |-> <<>>,
   listener |-> 0, foreign |-> 0, mo |-> <<>>,
   outcome |-> Outcome("pending", "", 0, <<>>)]

Init ==
  /\ isOpen = FALSE
  /\ command = NoCmd
  /\ response = <<>>
  /\ resolveFn = 0
  /\ rejectFn = 0
  /\ timeoutFn = 0
  /\ timers = {}
  /\ promises = [i \in Ids |-> NoPromise]
  /\ wire = <<>>
  /\ lineFor = 0
  /\ linkUp = TRUE
  /\ emitted = <<>>
  /\ nextId = 1
  /\ boot = [pc |-> "idle", step |-> 0, id |-> 0]
  /\ wb = NoWrite
  /\ snd = NoSend

\* The number of lines in an accumulated response.
lineCount(resp) ==
  IF resp = <<>> THEN 0
  ELSE 1 + Cardinality({i \in 1..Len(resp) : resp[i] = "\n"})

\* The serial link may break for good: from then on a write fails with an
\* I/O error and no line arrives.  The break shows at a write: the link a
\* write finds is the link as it was, or a broken one, and a call of
\* #execute that does not come to write leaves the link as it was.
LinkAfter(s) ==
  IF s.command = NoCmd /\ s.isOpen THEN {linkUp, FALSE} ELSE {linkUp}

\* A caller invokes a catalog method, which calls #execute.
Call ==
  /\ nextId \in DOMAIN promises
  /\ \E t \in TimeoutOptions, ioOk \in LinkAfter(Ctl) :
       \E cmd \in CatalogCalls(t) :
         /\ Becomes(execute(Ctl, nextId, cmd, ioOk))
         /\ linkUp' = ioOk
  /\ nextId' = nextId + 1
  /\ UNCHANGED <<boot, wb, snd>>

\* The line that ends the modem's answer to a command.  With reporting
\* enabled (AT+CIER=1,1,0,0 answered with OK) the reports follow until the
\* modem turns to the next command.
FinalLine(cmd, data) ==
  IF cmd.name = "writeBinaryShortBurstData" /\ cmd.kind = "text"
  THEN data \in {LINE_READY, LINE_ERROR}
  ELSE IF cmd.name = "waitForNetwork"
  THEN data = LINE_ERROR
  ELSE data \in {LINE_OK, LINE_ERROR}

\* The answers that come in a fixed order: the lines the modem may say to
\* the command of a write when it has said n lines of its answer.
Turn(cmd, n) ==
  CASE cmd.name = "waitForNetwork" ->
         IF n = 0 THEN {LINE_OK, LINE_ERROR}
         ELSE {LINE_CIEV(q) : q \in SignalReports}
    [] cmd.name = "initiateSessionExtended" ->
         IF n = 0 THEN SessionLines \cup {LINE_ERROR} ELSE {LINE_OK}
    [] cmd.name = "readShortBurstTextData" ->
         IF n = 0 THEN {LINE_SBDRT, LINE_ERROR}
         ELSE IF n = 1 THEN {LINE_PAYLOAD} ELSE {LINE_OK}
    [] cmd.name \in {"clearMOBuffer", "clearMTBuffer"} ->
         IF n = 0 THEN {<<"0">>, <<"1">>, LINE_ERROR} ELSE {LINE_OK}
    [] cmd.name = "getRingAlertEnabled" ->
         IF n = 0 THEN {LINE_SBDMTA(0), LINE_SBDMTA(1), LINE_ERROR}
         ELSE {LINE_OK}
    [] cmd.name = "transferMOBufferToMTBuffer" ->
         IF n = 0 THEN {LINE_SBDTC(Len(b)) : b \in Buffers} \cup {LINE_ERROR}
         ELSE {LINE_OK}
    [] cmd.name = "getRingIndicationStatus" ->
         IF n = 0 THEN {LINE_CRIS(0, sri) : sri \in {0, 1}} \cup {LINE_ERROR}
         ELSE {LINE_OK}
    [] cmd.name = "readShortBurstBinaryData" ->
         IF n = 0 THEN {LINE_SBDRB(b) : b \in Buffers} \cup {LINE_ERROR}
         ELSE {LINE_OK}
    [] OTHER -> ModemLines(cmd)

\* The lines said after one more line, for the answers in a fixed order.
SaidAfter(cmd, n) ==
  CASE cmd.name \in {"waitForNetwork", "initiateSessionExtended",
                     "clearMOBuffer", "clearMTBuffer",
                     "getRingAlertEnabled", "transferMOBufferToMTBuffer",
                     "readShortBurstBinaryData",
                     "getRingIndicationStatus"} -> 1
    [] cmd.name = "readShortBurstTextData" -> IF n = 0 THEN 1 ELSE 2
    [] OTHER -> n

\* The readline parser delivers a line of the modem's answer to the oldest
\* command it has not answered in full; the modem answers the commands in
\* the order they reached it.
Delivered(data) ==
  /\ isOpen /\ linkUp
  /\ wire # <<>>
  /\ LET s == handleData(Ctl, data)
     IN  /\ lineCount(s.response) <= MaxBuffered
         /\ Becomes([s EXCEPT
               !.wire = IF FinalLine(Head(wire).cmd, data)
                        THEN Tail(wire)
                        ELSE [wire EXCEPT ![1].said =
                                SaidAfter(Head(wire).cmd, @)],
               !.lineFor = Head(wire).id])

LineOf(data) ==
  /\ Delivered(data)
  /\ UNCHANGED <<linkUp, nextId, boot, wb, snd>>

Line ==
  /\ wire # <<>>
  /\ \E data \in ModemLines(Head(wire).cmd) :
       /\ data \in Turn(Head(wire).cmd, Head(wire).said)
       /\ LineOf(data)

\* The modem turns from reporting the signal quality to the command that
\* follows.
ModemNext ==
  /\ Len(wire) >= 2
  /\ Head(wire).cmd.name = "waitForNetwork"
  /\ Head(wire).said = 1
  /\ Becomes([Ctl EXCEPT !.wire = Tail(wire)])
  /\ UNCHANGED <<linkUp, nextId, boot, wb, snd>>

\* The readline parser delivers an unsolicited ring alert.
Ring ==
  /\ isOpen /\ linkUp
  /\ Becomes(handleData(Ctl, LINE_SBDRING))
  /\ UNCHANGED <<linkUp, nextId, boot, wb, snd>>

\* An armed timer fires.
TimerFire ==
  /\ \E h \in timers :
       Becomes(timeoutCallback([Ctl EXCEPT !.timers = @ \ {h}], h))
  /\ UNCHANGED <<linkUp, nextId, boot, wb, snd>>

\* close(): this.#serial.close.
Close ==
  /\ isOpen
  /\ Becomes([Ctl EXCEPT !.isOpen = FALSE])
  /\ UNCHANGED <<linkUp, nextId, boot, wb, snd>>

\* init(): this.#serial.open and, in its callback, the first command of the
\* boot sequence; opening an open port is an error.
InitCall ==
  /\ boot.pc # "running"
  /\ nextId \in DOMAIN promises
  /\ IF isOpen
     THEN /\ Becomes(logger(Ctl, "ERROR"))
          /\ boot' = [pc |-> "rejected", step |-> 0, id |-> 0]
          /\ UNCHANGED <<nextId, linkUp>>
     ELSE /\ \E ioOk \in LinkAfter([Ctl EXCEPT !.isOpen = TRUE]) :
               /\ Becomes(execute(logger([Ctl EXCEPT !.isOpen = TRUE], "INFO"),
                                  nextId, BootSequence[1], ioOk))
               /\ linkUp' = ioOk
          /\ boot' = [pc |-> "running", step |-> 1, id |-> nextId]
          /\ nextId' = nextId + 1
  /\ UNCHANGED <<wb, snd>>

\* The wrapper's own .then: clearBuffers throws on the result 1.
wrapperThrows(cmd, value) ==
  cmd.name = "clearBuffers" /\ value.text = <<"1">>

\* init(): a .then of the chain runs when the step before it has resolved.
InitThen ==
  /\ boot.pc = "running"
  /\ promises[boot.id].state = "resolved"
  /\ IF wrapperThrows(BootSequence[boot.step], promises[boot.id].value)
     THEN /\ boot' = [boot EXCEPT !.pc = "rejected"]
          /\ Becomes(Ctl)
          /\ UNCHANGED <<nextId, linkUp>>
     ELSE IF boot.step = Len(BootSequence)
     THEN /\ boot' = [boot EXCEPT !.pc = "resolved"]
          /\ Becomes(Ctl)
          /\ UNCHANGED <<nextId, linkUp>>
     ELSE /\ nextId \in DOMAIN promises
          /\ \E ioOk \in LinkAfter(Ctl) :
               /\ Becomes(execute(Ctl, nextId, BootSequence[boot.step + 1],
                                  ioOk))
               /\ linkUp' = ioOk
          /\ boot' = [pc |-> "running", step |-> boot.step + 1,
                      id |-> nextId]
          /\ nextId' = nextId + 1
  /\ UNCHANGED <<wb, snd>>

\* init(): the .catch of the chain.
InitCatch ==
  /\ boot.pc = "running"
  /\ promises[boot.id].state = "rejected"
  /\ boot' = [boot EXCEPT !.pc = "rejected"]
  /\ Becomes(Ctl)
  /\ UNCHANGED <<linkUp, nextId, wb, snd>>

\* writeBinaryShortBurstData({ buffer }): the first #execute.
WriteBinaryCall ==
  /\ wb.pc \notin {"phase1", "phase2"}
  /\ nextId \in DOMAIN promises
  /\ \E buffer \in Buffers, ioOk \in LinkAfter(Ctl) :
       /\ Becomes(execute(Ctl, nextId,
                          binaryWriteStart(buffer, DEFAULT_SIMPLE_TIMEOUT_MS),
                          ioOk))
       /\ linkUp' = ioOk
       /\ wb' = [NoWrite EXCEPT !.pc = "phase1", !.id = nextId,
                                 !.buffer = buffer]
  /\ nextId' = nextId + 1
  /\ UNCHANGED <<boot, snd>>

\* The same call with a message of any of the lengths and contents above.
WritePayload ==
  /\ wb.pc \notin {"phase1", "phase2"}
  /\ nextId \in DOMAIN promises
  /\ \E buffer \in Payloads, ioOk \in LinkAfter(Ctl) :
       /\ Becomes(execute(Ctl, nextId,
                          binaryWriteStart(buffer, DEFAULT_SIMPLE_TIMEOUT_MS),
                          ioOk))
       /\ linkUp' = ioOk
       /\ wb' = [NoWrite EXCEPT !.pc = "phase1", !.id = nextId,
                                 !.buffer = buffer]
  /\ nextId' = nextId + 1
  /\ UNCHANGED <<boot, snd>>

\* Variant: the bytes are sent when the first command has settled, whether
\* it resolved or was rejected.
WriteBinaryDataAlways ==
  /\ wb.pc = "phase1"
  /\ promises[wb.id].state \in {"resolved", "rejected"}
  /\ nextId \in DOMAIN promises
  /\ \E ioOk \in LinkAfter(Ctl) :
       /\ Becomes(execute(Ctl, nextId, binaryWriteData(wb.buffer), ioOk))
       /\ linkUp' = ioOk
  /\ wb' = [wb EXCEPT !.pc = "phase2", !.id = nextId]
  /\ nextId' = nextId + 1
  /\ UNCHANGED <<boot, snd>>

\* The first .then: the second #execute, with the bytes.
WriteBinaryData ==
  /\ wb.pc = "phase1"
  /\ promises[wb.id].state = "resolved"
  /\ nextId \in DOMAIN promises
  /\ \E ioOk \in LinkAfter(Ctl) :
       /\ Becomes(execute(Ctl, nextId, binaryWriteData(wb.buffer), ioOk))
       /\ linkUp' = ioOk
  /\ wb' = [wb EXCEPT !.pc = "phase2", !.id = nextId]
  /\ nextId' = nextId + 1
  /\ UNCHANGED <<boot, snd>>

\* parseInt(result) of the second .then, for a result of one line: -1 stands
\* for NaN.
parseInt(text) ==
  IF text # <<>> /\ \E d \in 0..9 : Digit(d) = text[1]
  THEN CHOOSE d \in 0..9 : Digit(d) = text[1]
  ELSE -1

lookupWriteBinaryResult(code) ==
  CASE code = 0 -> "SBD message successfully written to the device"
    [] code = 1 -> "SBD message write timeout. An insufficient number of bytes were transferred to the device during the transfer period of 60 seconds"
    [] code = 2 -> "SBD message checksum sent from DTE does not match the checksum calculated by the device"
    [] code = 3 -> "SBD message size is not correct. The maximum mobile originated SBD message length is 340 bytes. The minimum mobile originated SBD message length is 1 byte"
    [] OTHER -> "Unknown response code received from the device"

WRITE_ERROR == "Error writing binary message to buffer."

\* Variant: resolve() is called before the code is looked at.
writeBinarySettledResolveFirst(w, result) ==
  LET code == parseInt(result)
  IN  IF code = -1 \/ code > 0
      THEN [w EXCEPT !.pc = "resolved", !.calls = 2]
      ELSE [w EXCEPT !.pc = "resolved", !.calls = 1]

\* The second .then: reject on a result other than 0, then resolve() in any
\* case; the first call settles the outer promise.
writeBinarySettled(w, result) ==
  LET code == parseInt(result)
  IN  IF code = -1 \/ code > 0
      THEN [w EXCEPT !.pc = "rejected", !.calls = 2,
                     !.error = <<WRITE_ERROR, lookupWriteBinaryResult(code)>>]
      ELSE [w EXCEPT !.pc = "resolved", !.calls = 1]

WriteBinaryThen ==
  /\ wb.pc = "phase2"
  /\ promises[wb.id].state = "resolved"
  /\ wb' = writeBinarySettled(wb, promises[wb.id].value.text)
  /\ Becomes(logger(Ctl, "DEBUG"))
  /\ UNCHANGED <<linkUp, nextId, boot, snd>>

\* The .catch of the chain.
WriteBinaryCatch ==
  /\ wb.pc \in {"phase1", "phase2"}
  /\ promises[wb.id].state = "rejected"
  /\ wb' = [wb EXCEPT !.pc = "rejected", !.calls = 1,
                       !.error = <<WRITE_ERROR, promises[wb.id].value.err>>]
  /\ Becomes(Ctl)
  /\ UNCHANGED <<linkUp, nextId, boot, snd>>

(***************************************************************************)
(* sendTextMessage and sendBinaryMessage.  A step of the chain runs as a   *)
(* microtask when the promise it waits for has settled.                    *)
(***************************************************************************)
Messages == {<<"H", "E", "L", "L", "O">>}

\* SignalQuality values a caller asks for.
SignalOptions == {1, 3}

\* The send in state w passes cmd to #execute and waits for it at step pc.
Issue(w, cmd, pc) ==
  /\ nextId \in DOMAIN promises
  /\ Becomes(execute(Ctl, nextId, cmd, linkUp))
  /\ snd' = [w EXCEPT !.pc = pc, !.id = nextId,
                       !.issued = Append(@, cmd.data)]
  /\ nextId' = nextId + 1

\* reject(error) of the send.
Reject(err, from, value) ==
  /\ snd' = [snd EXCEPT !.pc = "rejected",
                         !.outcome = Outcome("rejected", err, from, value)]
  /\ Becomes(Ctl)
  /\ UNCHANGED nextId

\* sendTextMessage(message, { signalQuality }): writeShortBurstTextData.
SendText ==
  /\ snd.pc = "idle"
  /\ \E text \in Messages, q \in SignalOptions :
       Issue([snd EXCEPT !.kind = "text", !.signalQuality = q],
             writeShortBurstTextData(text, DEFAULT_SIMPLE_TIMEOUT_MS),
             "write")
  /\ UNCHANGED <<linkUp, boot, wb>>

\* sendBinaryMessage(message, { signalQuality }): the first #execute of
\* writeBinaryShortBurstData.
SendBinary ==
  /\ snd.pc = "idle"
  /\ wb.pc \notin {"phase1", "phase2"}
  /\ \E buffer \in Buffers, q \in SignalOptions :
       /\ Issue([snd EXCEPT !.kind = "binary", !.signalQuality = q],
                binaryWriteStart(buffer, DEFAULT_SIMPLE_TIMEOUT_MS),
                "binaryWrite")
       /\ wb' = [NoWrite EXCEPT !.pc = "phase1", !.id = nextId,
                                 !.buffer = buffer]
  /\ UNCHANGED <<linkUp, boot>>

\* .then(() => this.waitForNetwork({ signalQuality })): its first #execute.
SendWritten ==
  /\ \/ snd.pc = "write" /\ promises[snd.id].state = "resolved"
     \/ snd.pc = "binaryWrite" /\ wb.pc = "resolved"
  /\ Issue(snd, waitForNetwork(snd.signalQuality, INDEFINITE_TIMEOUT), "wait")
  /\ UNCHANGED <<linkUp, boot, wb>>

\* Variant: the session follows the write at once.
SendSignalNoDisable ==
  /\ snd.pc = "wait"
  /\ promises[snd.id].state = "resolved"
  /\ Issue(snd, initiateSessionExtended(DEFAULT_SESSION_TIMEOUT_MS),
           "session")
  /\ UNCHANGED <<linkUp, boot, wb>>

\* Variant: the reporting is disabled however the wait ended.
SendSignalFinally ==
  /\ snd.pc = "wait"
  /\ Settled(snd.id)
  /\ Issue(snd, indicatorEventReportingDisable(DEFAULT_SIMPLE_TIMEOUT_MS),
           "disable")
  /\ UNCHANGED <<linkUp, boot, wb>>

\* waitForNetwork: .then(() => this.indicatorEventReportingDisable()).
SendSignal ==
  /\ snd.pc = "wait"
  /\ promises[snd.id].state = "resolved"
  /\ Issue(snd, indicatorEventReportingDisable(DEFAULT_SIMPLE_TIMEOUT_MS),
           "disable")
  /\ UNCHANGED <<linkUp, boot, wb>>

\* .then(() => this.initiateSessionExtended()): its #execute.
SendConnected ==
  /\ snd.pc = "disable"
  /\ promises[snd.id].state = "resolved"
  /\ Issue(snd, initiateSessionExtended(DEFAULT_SESSION_TIMEOUT_MS),
           "session")
  /\ UNCHANGED <<linkUp, boot, wb>>

\* Variant: status 5 passes for a transfer that succeeded.
transferFailedAboveFive(moStatus) == moStatus > 5

\* if (moStatus > 4)
transferFailed(moStatus) == moStatus > 4

\* The .then of initiateSessionExtended and, when it returns the response,
\* the .then of the send that calls clearMOBuffer.
SendSession ==
  /\ snd.pc = "session"
  /\ promises[snd.id].state = "resolved"
  /\ LET data == matchSBDIX(promises[snd.id].value.text)
         session == SessionResponse(data)
         got == [snd EXCEPT !.result = <<session>>]
     IN  IF data = <<>>
         THEN Reject("SBDSessionError", 0, <<>>)
         ELSE IF transferFailed(session.moStatus)
         THEN Reject("SBDSessionError", 0, <<session>>)
         ELSE IF session.mtStatus = 0
         THEN Issue(got, clearMOBuffer(DEFAULT_SIMPLE_TIMEOUT_MS), "clearMO")
         ELSE IF session.mtStatus = 1
         THEN Issue(got, readShortBurstTextData(INDEFINITE_TIMEOUT), "read")
         ELSE IF session.mtStatus = 2
         THEN Issue(got, clearMOBuffer(DEFAULT_SIMPLE_TIMEOUT_MS), "clearMO")
         ELSE Issue(snd, clearMOBuffer(DEFAULT_SIMPLE_TIMEOUT_MS), "clearMO")
  /\ UNCHANGED <<linkUp, boot, wb>>

\* readShortBurstTextData: the .then, which emits inbound-message to the
\* listeners, and the .finally, which calls clearMTBuffer.  A listener may
\* answer the message with a command of its own (reply), here echoOff.
SendRead ==
  /\ snd.pc = "read"
  /\ IF promises[snd.id].state = "resolved"
     THEN \E reply \in BOOLEAN :
            LET message == promises[snd.id].value.text
                heard == emit(logger(Ctl, "INFO"), "inbound-message")
                cmd == clearMTBuffer(DEFAULT_SIMPLE_TIMEOUT_MS)
                w == [snd EXCEPT !.pc = "clearMT",
                                 !.issued = Append(@, cmd.data),
                                 !.inbound = Append(@, message)]
            IN  IF reply
                THEN /\ nextId + 1 \in DOMAIN promises
                     /\ Becomes(execute(
                          execute(heard, nextId,
                                  echoOff(DEFAULT_SIMPLE_TIMEOUT_MS), linkUp),
                          nextId + 1, cmd, linkUp))
                     /\ snd' = [w EXCEPT !.id = nextId + 1,
                                          !.listener = nextId]
                     /\ nextId' = nextId + 2
                ELSE /\ nextId \in DOMAIN promises
                     /\ Becomes(execute(heard, nextId, cmd, linkUp))
                     /\ snd' = [w EXCEPT !.id = nextId]
                     /\ nextId' = nextId + 1
     ELSE /\ promises[snd.id].state = "rejected"
          /\ Issue([snd EXCEPT !.readFailed = snd.id],
                   clearMTBuffer(DEFAULT_SIMPLE_TIMEOUT_MS), "clearMT")
  /\ UNCHANGED <<linkUp, boot, wb>>

\* clearMTBuffer's .then and the promise of the .finally: the failure of
\* clearMTBuffer, else the failure of the read, else .then(() => response)
\* and the .then of the send that calls clearMOBuffer.
SendClearedMT ==
  /\ snd.pc = "clearMT"
  /\ LET p == promises[snd.id]
     IN  CASE p.state = "rejected" -> Reject(p.value.err, snd.id, <<>>)
           [] p.state = "resolved" /\ p.value.text = <<"1">> ->
                Reject("Error", 0, <<>>)
           [] p.state = "resolved" /\ p.value.text # <<"1">>
                /\ snd.readFailed # 0 ->
                Reject(promises[snd.readFailed].value.err, snd.readFailed,
                       <<>>)
           [] p.state = "resolved" /\ p.value.text # <<"1">>
                /\ snd.readFailed = 0 ->
                Issue(snd, clearMOBuffer(DEFAULT_SIMPLE_TIMEOUT_MS),
                      "clearMO")
           [] OTHER -> FALSE
  /\ UNCHANGED <<linkUp, boot, wb>>

\* Variant: resolve(result) without a look at the result of clearMOBuffer.
SendClearedMOAlways ==
  /\ snd.pc = "clearMO"
  /\ Settled(snd.id)
  /\ snd' = [snd EXCEPT !.pc = "resolved",
                         !.outcome = Outcome("resolved", "", 0, snd.result)]
  /\ Becomes(Ctl)
  /\ UNCHANGED <<linkUp, nextId, boot, wb>>

\* clearMOBuffer's .then, then .then(() => resolve(result)) or
\* .catch((error) => reject(error)).
SendClearedMO ==
  /\ snd.pc = "clearMO"
  /\ LET p == promises[snd.id]
     IN  CASE p.state = "rejected" -> Reject(p.value.err, snd.id, <<>>)
           [] p.state = "resolved" /\ p.value.text = <<"1">> ->
                Reject("Error", 0, <<>>)
           [] p.state = "resolved" /\ p.value.text # <<"1">> ->
                /\ snd' = [snd EXCEPT
                             !.pc = "resolved",
                             !.outcome = Outcome("resolved", "", 0,
                                                 snd.result)]
                /\ Becomes(Ctl)
                /\ UNCHANGED nextId
           [] OTHER -> FALSE
  /\ UNCHANGED <<linkUp, boot, wb>>

\* The .catch((error) => reject(error)) of the send's chain.
SendCatch ==
  /\ \/ /\ snd.pc \in {"write", "wait", "disable", "session"}
        /\ promises[snd.id].state = "rejected"
        /\ Reject(promises[snd.id].value.err, snd.id, <<>>)
     \/ /\ snd.pc = "binaryWrite"
        /\ wb.pc = "rejected"
        /\ Reject("Error", wb.id, <<>>)
  /\ UNCHANGED <<linkUp, boot, wb>>

\* A step of a chain is due: the promise it waits for has settled.  Node
\* runs the steps that are due before it turns to the next line, timer or
\* caller.
Due ==
  \/ /\ snd.pc \in {"write", "wait", "disable", "session", "read", "clearMT",
                     "clearMO", "set", "get", "transfer", "readBinary",
                     "ringStatus"}
     /\ Settled(snd.id)
  \/ /\ snd.pc \in {"binaryWrite", "loopWrite"}
     /\ \/ wb.pc \in {"resolved", "rejected"}
        \/ wb.pc \in {"phase1", "phase2"} /\ Settled(wb.id)

MaxForeign == 2

\* Another caller invokes a catalog method, here echoOff.
ForeignCall ==
  /\ ~Due
  /\ snd.foreign < MaxForeign
  /\ nextId \in DOMAIN promises
  /\ Becomes(execute(Ctl, nextId, echoOff(DEFAULT_SIMPLE_TIMEOUT_MS), linkUp))
  /\ snd' = [snd EXCEPT !.foreign = @ + 1]
  /\ nextId' = nextId + 1
  /\ UNCHANGED <<linkUp, boot, wb>>

\* A line arrives when no step is due.
LineTask == ~Due /\ Line

\* A timer fires when no step is due.
TimerTask == ~Due /\ TimerFire

Next ==
  \/ Call
  \/ Line
  \/ Ring
  \/ TimerFire
  \/ InitCall
  \/ InitThen
  \/ InitCatch
  \/ WriteBinaryCall
  \/ WriteBinaryData
  \/ WriteBinaryThen
  \/ WriteBinaryCatch
  \/ Close

Spec == Init /\ [][Next]_vars

\* Node runs the callback of an armed timer: a timer that stays armed fires.
LiveSpec == Init /\ [][Next]_vars /\ WF_vars(TimerFire)

\* The controller once init() has opened the port and its commands have all
\* resolved: the port is open, the slot idle, no timer armed.  The calls
\* that follow are numbered from 1, over the set ids.
Opened(ids) ==
  /\ isOpen = TRUE
  /\ command = NoCmd
  /\ response = <<>>
  /\ resolveFn = 0
  /\ rejectFn = 0
  /\ timeoutFn = 0
  /\ timers = {}
  /\ promises = [i \in ids |-> NoPromise]
  /\ wire = <<>>
  /\ lineFor = 0
  /\ linkUp = TRUE
  /\ emitted = <<>>
  /\ nextId = 1
  /\ boot = [pc |-> "resolved", step |-> Len(BootSequence), id |-> 0]
  /\ wb = NoWrite
  /\ snd = NoSend

\* writeBinaryShortBurstData on an opened controller, with messages of the
\* lengths and contents of Payloads.
WriteNext ==
  \/ WritePayload
  \/ Line
  \/ TimerFire
  \/ WriteBinaryData
  \/ WriteBinaryThen
  \/ WriteBinaryCatch

WriteSpec == Opened(Ids) /\ [][WriteNext]_vars

MaxSendCmds == 10

SendIds == 1..MaxSendCmds

\* A send on an opened controller, with other callers and a modem that
\* answers each command.
SendNext ==
  \/ SendText
  \/ SendBinary
  \/ WriteBinaryData
  \/ WriteBinaryThen
  \/ WriteBinaryCatch
  \/ SendWritten
  \/ SendSignal
  \/ SendConnected
  \/ SendSession
  \/ SendRead
  \/ SendClearedMT
  \/ SendClearedMO
  \/ SendCatch
  \/ ForeignCall
  \/ LineTask
  \/ TimerTask
  \/ ModemNext

SendSpec == Opened(SendIds) /\ [][SendNext]_vars

\* A step of the chain of a send, the .then of the session apart.
SendStep ==
  \/ WriteBinaryData
  \/ WriteBinaryThen
  \/ WriteBinaryCatch
  \/ SendWritten
  \/ SendSignal
  \/ SendConnected
  \/ SendRead
  \/ SendClearedMT
  \/ SendClearedMO
  \/ SendCatch

\* One caller sends on an opened controller.
SettleNext ==
  \/ SendText
  \/ SendBinary
  \/ SendStep
  \/ SendSession
  \/ LineTask
  \/ TimerTask
  \/ ModemNext

\* The promise of initiateSessionExtended has resolved and its .then has not
\* run yet.
SessionDue == snd.pc = "session" /\ promises[snd.id].state = "resolved"

\* Node's scheduling: an armed timer fires and a step of a chain that is due
\* runs, the .then of the session included (it only waits while SessionDue).
\* Nothing makes the modem answer.  The timeoutMs option of the send is never
\* read, so SendText and SendBinary stand for the call with any timeoutMs.
SettleSpec ==
  /\ Opened(SendIds)
  /\ [][SettleNext]_vars
  /\ WF_vars(TimerTask)
  /\ WF_vars(SendStep)
  /\ []<>~SessionDue

\* The messages of the callers that send one after the other.
CallerMessages == {<<"H", "E", "L", "L", "O">>, <<"B", "Y", "E">>}

\* The #execute calls made before the last send is called.
MaxEarlier == 2

SBDWT_PREFIX == <<"A", "T", "+", "S", "B", "D", "W", "T", "=">>

\* The text a command AT+SBDWT=<text> carries.
TextOf(data) == SubSeq(data, Len(SBDWT_PREFIX) + 1, Len(data))

\* The MO buffer of the modem once it has said data to cmd: AT+SBDWT=<text>
\* answered with OK stores the text, AT+SBDD0 answered with 0 empties the
\* buffer, anything else leaves it.
MOAfter(cmd, data, mo) ==
  IF cmd.name = "writeShortBurstTextData" /\ data = LINE_OK
  THEN TextOf(cmd.data)
  ELSE IF cmd.name = "clearMOBuffer" /\ data = <<"0">>
  THEN <<>>
  ELSE mo

\* A caller invokes sendTextMessage(message, { signalQuality }) when no send
\* is running: the first, or one that follows a send that has settled.
CallerSend ==
  /\ ~Due
  /\ snd.pc \in {"idle", "resolved", "rejected"}
  /\ nextId <= MaxEarlier + 1
  /\ \E text \in CallerMessages :
       Issue([NoSend EXCEPT !.kind = "text", !.signalQuality = 1,
                            !.mo = snd.mo],
             writeShortBurstTextData(text, DEFAULT_SIMPLE_TIMEOUT_MS),
             "write")
  /\ UNCHANGED <<linkUp, boot, wb>>

\* Another caller invokes sendTextMessage while a send is running: its
\* writeShortBurstTextData.
OtherSend ==
  /\ ~Due
  /\ snd.pc \notin {"idle", "resolved", "rejected"}
  /\ snd.foreign < MaxForeign
  /\ nextId \in DOMAIN promises
  /\ \E text \in CallerMessages :
       Becomes(execute(Ctl, nextId,
                       writeShortBurstTextData(text,
                                               DEFAULT_SIMPLE_TIMEOUT_MS),
                       linkUp))
  /\ snd' = [snd EXCEPT !.foreign = @ + 1]
  /\ nextId' = nextId + 1
  /\ UNCHANGED <<linkUp, boot, wb>>

\* The readline parser delivers a line of the modem's answer, at any point
\* between the steps of the chains: the lines of one read of the port are
\* handled one after the other.  The MO buffer follows the answer.
ModemAnswer ==
  /\ wire # <<>>
  /\ \E data \in ModemLines(Head(wire).cmd) :
       /\ data \in Turn(Head(wire).cmd, Head(wire).said)
       /\ Delivered(data)
       /\ snd' = [snd EXCEPT !.mo = MOAfter(Head(wire).cmd, data, @)]
  /\ UNCHANGED <<linkUp, nextId, boot, wb>>

\* Callers send text messages on an opened controller, one after the other
\* and at the same time.
ConcurrentNext ==
  \/ CallerSend
  \/ OtherSend
  \/ SendWritten
  \/ SendSignal
  \/ SendConnected
  \/ SendSession
  \/ SendRead
  \/ SendClearedMT
  \/ SendClearedMO
  \/ SendCatch
  \/ ModemAnswer
  \/ TimerTask
  \/ ModemNext

ConcurrentSpec == Opened(SendIds) /\ [][ConcurrentNext]_vars

\* +SBDIX results with an MT status the protocol does not define.
OtherSessionLines == {LINE_SBDIX(mo, 3) : mo \in {0, 4}}

\* The modem answers AT+SBDIXA with such a result.
OtherSessionLine ==
  /\ ~Due
  /\ wire # <<>>
  /\ Head(wire).cmd.name = "initiateSessionExtended"
  /\ Head(wire).said = 0
  /\ \E data \in OtherSessionLines : LineOf(data)

\* A send with a modem that may also give such a result.
SessionSpec == Opened(SendIds) /\ [][SendNext \/ OtherSessionLine]_vars

\* waitForNetwork({ signalQuality, timeoutMs }) called on its own: its
\* #execute.
WaitCall ==
  /\ snd.pc = "idle"
  /\ \E q \in SignalOptions, t \in TimeoutOptions :
       Issue([snd EXCEPT !.kind = "wait", !.signalQuality = q],
             waitForNetwork(q, t), "wait")
  /\ UNCHANGED <<linkUp, boot, wb>>

\* The promise waitForNetwork returned resolves when
\* indicatorEventReportingDisable has resolved.
WaitDone ==
  /\ snd.kind = "wait"
  /\ snd.pc = "disable"
  /\ promises[snd.id].state = "resolved"
  /\ snd' = [snd EXCEPT !.pc = "resolved",
                         !.outcome = Outcome("resolved", "", 0, <<>>)]
  /\ Becomes(Ctl)
  /\ UNCHANGED <<linkUp, nextId, boot, wb>>

\* The promise waitForNetwork returned rejects with the rejection of its
\* #execute, the .then skipped, or with the rejection of
\* indicatorEventReportingDisable.
WaitFailed ==
  /\ snd.kind = "wait"
  /\ snd.pc \in {"wait", "disable"}
  /\ promises[snd.id].state = "rejected"
  /\ Reject(promises[snd.id].value.err, snd.id, <<>>)
  /\ UNCHANGED <<linkUp, boot, wb>>

\* A caller waits for the network on an opened controller, with other
\* callers and a modem that reports the signal quality.
WaitNext ==
  \/ WaitCall
  \/ SendSignal
  \/ WaitDone
  \/ WaitFailed
  \/ ForeignCall
  \/ LineTask
  \/ TimerTask
  \/ ModemNext

WaitSpec == Opened(SendIds) /\ [][WaitNext]_vars

\* A caller sets the ring alert mode: ringAlertEnable() or
\* ringAlertDisable().
RingAlertSet ==
  /\ snd.pc = "idle"
  /\ \/ Issue([snd EXCEPT !.kind = "ringAlertEnable"],
               ringAlertEnable(DEFAULT_SIMPLE_TIMEOUT_MS), "set")
     \/ Issue([snd EXCEPT !.kind = "ringAlertDisable"],
               ringAlertDisable(DEFAULT_SIMPLE_TIMEOUT_MS), "set")
  /\ UNCHANGED <<linkUp, boot, wb>>

\* When the mode is set the caller calls getRingAlertEnabled().
RingAlertQuery ==
  /\ snd.pc = "set"
  /\ promises[snd.id].state = "resolved"
  /\ Issue(snd, getRingAlertEnabled(DEFAULT_SIMPLE_TIMEOUT_MS), "get")
  /\ UNCHANGED <<linkUp, boot, wb>>

\* The .then of getRingAlertEnabled: the promise resolves with the flag.
RingAlertResult ==
  /\ snd.pc = "get"
  /\ promises[snd.id].state = "resolved"
  /\ snd' = [snd EXCEPT
               !.pc = "resolved",
               !.outcome =
                 Outcome("resolved", "", 0,
                         <<ringAlertFlag(promises[snd.id].value.text)>>)]
  /\ Becomes(Ctl)
  /\ UNCHANGED <<linkUp, nextId, boot, wb>>

\* A rejected #execute rejects the promise of the method that called it.
RingAlertFailed ==
  /\ snd.pc \in {"set", "get"}
  /\ promises[snd.id].state = "rejected"
  /\ Reject(promises[snd.id].value.err, snd.id, <<>>)
  /\ UNCHANGED <<linkUp, boot, wb>>

\* A caller sets the ring alert mode and reads it back, with other callers,
\* timers and a modem that answers each command.
RingAlertNext ==
  \/ RingAlertSet
  \/ RingAlertQuery
  \/ RingAlertResult
  \/ RingAlertFailed
  \/ ForeignCall
  \/ LineTask
  \/ TimerTask

RingAlertSpec == Opened(SendIds) /\ [][RingAlertNext]_vars

\* A caller writes a message to the MO buffer, to copy it to the MT buffer
\* and read it back: the first #execute of writeBinaryShortBurstData.
LoopWrite ==
  /\ snd.pc = "idle"
  /\ wb.pc \notin {"phase1", "phase2"}
  /\ \E buffer \in Buffers :
       /\ Issue([snd EXCEPT !.kind = "loopback"],
                binaryWriteStart(buffer, DEFAULT_SIMPLE_TIMEOUT_MS),
                "loopWrite")
       /\ wb' = [NoWrite EXCEPT !.pc = "phase1", !.id = nextId,
                                 !.buffer = buffer]
  /\ UNCHANGED <<linkUp, boot>>

\* When the write has resolved the caller calls transferMOBufferToMTBuffer().
LoopTransfer ==
  /\ snd.pc = "loopWrite"
  /\ wb.pc = "resolved"
  /\ Issue(snd, transferMOBufferToMTBuffer(DEFAULT_SIMPLE_TIMEOUT_MS),
           "transfer")
  /\ UNCHANGED <<linkUp, boot, wb>>

\* When the transfer has resolved the caller calls
\* readShortBurstBinaryData().
LoopRead ==
  /\ snd.pc = "transfer"
  /\ promises[snd.id].state = "resolved"
  /\ Issue(snd, readShortBurstBinaryData(DEFAULT_SIMPLE_TIMEOUT_MS),
           "readBinary")
  /\ UNCHANGED <<linkUp, boot, wb>>

\* readShortBurstBinaryData: .then() hands on what #execute resolved with.
LoopResult ==
  /\ snd.pc = "readBinary"
  /\ promises[snd.id].state = "resolved"
  /\ snd' = [snd EXCEPT
               !.pc = "resolved",
               !.outcome = Outcome("resolved", "", 0,
                                   <<promises[snd.id].value.text>>)]
  /\ Becomes(Ctl)
  /\ UNCHANGED <<linkUp, nextId, boot, wb>>

\* A rejected step ends the caller's sequence.
LoopFailed ==
  /\ \/ /\ snd.pc \in {"transfer", "readBinary"}
        /\ promises[snd.id].state = "rejected"
        /\ Reject(promises[snd.id].value.err, snd.id, <<>>)
     \/ /\ snd.pc = "loopWrite"
        /\ wb.pc = "rejected"
        /\ Reject("Error", wb.id, <<>>)
  /\ UNCHANGED <<linkUp, boot, wb>>

\* A message written, copied to the MT buffer and read back, with timers
\* and a modem that answers each command.  The lines of an answer may come
\* in one read of the port: a line is then handled before the step that the
\* line before it made due.
LoopNext ==
  \/ LoopWrite
  \/ WriteBinaryData
  \/ WriteBinaryThen
  \/ WriteBinaryCatch
  \/ LoopTransfer
  \/ LoopRead
  \/ LoopResult
  \/ LoopFailed
  \/ ForeignCall
  \/ Line
  \/ TimerTask

LoopSpec == Opened(SendIds) /\ [][LoopNext]_vars

\* A caller calls getRingIndicationStatus(): its #execute.
RingStatusCall ==
  /\ snd.pc = "idle"
  /\ Issue([snd EXCEPT !.kind = "ringStatus"],
           getRingIndicationStatus(DEFAULT_SIMPLE_TIMEOUT_MS), "ringStatus")
  /\ UNCHANGED <<linkUp, boot, wb>>

\* The .then of getRingIndicationStatus: the promise resolves with the
\* status, or rejects with what the .then threw.
RingStatusResult ==
  /\ snd.pc = "ringStatus"
  /\ promises[snd.id].state = "resolved"
  /\ LET status == ringIndicationStatus(promises[snd.id].value.text)
     IN  IF status = "TypeError"
         THEN Reject("TypeError", 0, <<>>)
         ELSE /\ snd' = [snd EXCEPT
                          !.pc = "resolved",
                          !.outcome = Outcome("resolved", "", 0, status)]
              /\ Becomes(Ctl)
              /\ UNCHANGED nextId
  /\ UNCHANGED <<linkUp, boot, wb>>

RingStatusFailed ==
  /\ snd.pc = "ringStatus"
  /\ promises[snd.id].state = "rejected"
  /\ Reject(promises[snd.id].value.err, snd.id, <<>>)
  /\ UNCHANGED <<linkUp, boot, wb>>

\* The ring indication status queried, with other callers, ring alerts,
\* timers and a modem that answers each command.
RingStatusNext ==
  \/ RingStatusCall
  \/ RingStatusResult
  \/ RingStatusFailed
  \/ ForeignCall
  \/ LineTask
  \/ TimerTask
  \/ Ring

RingStatusSpec == Opened(SendIds) /\ [][RingStatusNext]_vars

(***************************************************************************)
(* Properties.                                                             *)
(***************************************************************************)

\* A step in which #execute was called: the call has the number nextId.
ExecuteStep == nextId' = nextId + 1

\* C1: the slot holds at most one command: every pending promise is the one
\* of the command in the slot, and an #execute called while a command is in
\* flight is rejected with Busy at once, writes nothing, and leaves the
\* command in flight, its accumulated response and its timer as they were.
C1_BusyStep ==
  /\ (ExecuteStep /\ command # NoCmd) =>
        /\ promises'[nextId] =
             [state |-> "rejected", value |-> Value("Busy", <<>>, <<>>),
              calls |-> 1]
        /\ wire' = wire
        /\ command' = command
        /\ response' = response
        /\ resolveFn' = resolveFn
        /\ rejectFn' = rejectFn
        /\ timeoutFn' = timeoutFn
        /\ timers' = timers
  /\ \A i \in Ids : promises'[i].state = "pending" => command'.id = i

C1_SingleInFlight == [][C1_BusyStep]_vars

\* A command in flight with a buffered response and an armed timer, and a
\* later #execute rejected with Busy.
C1_Witness ==
  /\ command # NoCmd
  /\ response # <<>>
  /\ command.id \in timers
  /\ \E i \in Ids : i > command.id /\ promises[i].value.err = "Busy"

\* C2: the resolve and reject functions of a command are called at most
\* once between them, and the step that settles a command in flight clears
\* the slot.
C2_SettleStep ==
  \A i \in Ids :
    /\ promises'[i].calls <= 1
    /\ (promises[i].state = "pending" /\ promises'[i].state # "pending") =>
         /\ command.id = i
         /\ command' = NoCmd
         /\ resolveFn' = 0
         /\ rejectFn' = 0

C2_CompletedOnce == [][C2_SettleStep]_vars

\* One command resolved by a line, one rejected by a line, one timed out.
C2_Witness ==
  \E i, j, k \in Ids :
    /\ promises[i].state = "resolved"
    /\ promises[j].value.err = "CommandError"
    /\ promises[k].value.err = "Timeout"

\* A step in which the line handler settled command i or appended to its
\* response.
TouchedByLine(i) ==
  \/ /\ promises[i].state = "pending"
     /\ promises'[i].state # "pending"
     /\ promises'[i].value.err \in {"", "CommandError"}
  \/ /\ command.id = i
     /\ command'.id = i
     /\ response' # response

\* C3: a line resolves, rejects or is appended to the response of the
\* command the modem emitted it for, and of no other.
C3_Matched ==
  [][\A i \in Ids : TouchedByLine(i) => lineFor' = i]_vars

\* C4: a command in flight with timeoutMs > 0 has its timer armed; the timer
\* firing clears the slot and rejects the command with Timeout; and so the
\* command is eventually completed.
C4_TimerStep ==
  \A i \in Ids :
    /\ (command'.id = i /\ command'.timeoutMs > 0) => i \in timers'
    /\ (command.id = i /\ i \in timers /\ i \notin timers') =>
         /\ command' = NoCmd
         /\ Settled(i)'
    /\ (promises[i].state = "pending" /\ promises'[i].value.err = "Timeout") =>
         /\ command.id = i
         /\ command' = NoCmd
         /\ promises'[i].state = "rejected"

C4_TimeoutCompletes ==
  /\ [][C4_TimerStep]_vars
  /\ \A i \in Ids :
       (command.id = i /\ command.timeoutMs > 0) ~> Settled(i)

\* A command that got no success and no error line was rejected by its timer.
C4_Witness ==
  \E i \in Ids :
    /\ promises[i].state = "rejected"
    /\ promises[i].value.err = "Timeout"
    /\ command = NoCmd

\* C5: after a command failed with Timeout or CommandError, the next command
\* accepted resolves when the modem answers it with its success line, unless
\* its own timer has fired before.
C5_AnswerStep ==
  \A i \in Ids : \A data \in ModemLines(Head(wire).cmd) :
    ( /\ LineOf(data)
      /\ Head(wire).id = i
      /\ test(Head(wire).cmd.successRegex, data)
      /\ promises[i].value.err # "Timeout"
      /\ \E j \in Ids :
           j < i /\ promises[j].value.err \in {"Timeout", "CommandError"} )
    => promises'[i].state = "resolved"

C5_SucceedsAfterFailure == [][wire # <<>> => C5_AnswerStep]_vars

\* C6: a line SBDRING, with the controller idle or a command in flight,
\* emits ring-alert once and nothing else (no warning), settles no promise,
\* is not appended to the response, and leaves the slot and the timers as
\* they were.
C6_RingStep ==
  Ring =>
    /\ emitted' = <<"ring-alert">>
    /\ UNCHANGED <<command, response, resolveFn, rejectFn, timeoutFn,
                   timers, promises, wire>>

C6_RingAlertOnly == [][C6_RingStep]_vars

\* A ring alert delivered while a command that buffers any line is in
\* flight, with lines buffered and its timer armed.
C6_Witness ==
  /\ emitted = <<"ring-alert">>
  /\ command # NoCmd
  /\ command.bufferRegex = ANY_REGEXP
  /\ response # <<>>
  /\ command.id \in timers

\* C7: a line that matches the error pattern of the command in flight
\* rejects it with CommandError carrying the response accumulated before
\* the line (empty when nothing was buffered) and clears the slot.
C7_ErrorStep ==
  \A data \in ModemLines(Head(wire).cmd) :
    ( /\ LineOf(data)
      /\ command # NoCmd
      /\ test(errorRegexOf(command), data) )
    => /\ promises'[command.id] =
            [state |-> "rejected",
             value |-> Value("CommandError", response, data),
             calls |-> 1]
       /\ command' = NoCmd
       /\ response' = <<>>
       /\ resolveFn' = 0
       /\ rejectFn' = 0
       /\ command.id \notin timers'

C7_CommandError == [][wire # <<>> => C7_ErrorStep]_vars

\* One command rejected with an empty response and one with a response
\* that had lines buffered.
C7_Witness ==
  \E i, j \in Ids :
    /\ promises[i].value.err = "CommandError"
    /\ promises[i].value.text = <<>>
    /\ promises[j].value.err = "CommandError"
    /\ promises[j].value.text # <<>>

\* C8: #execute called with the port closed rejects with NotOpen when no
\* command is in flight, installing nothing, arming no timer and writing
\* nothing, and with Busy when a command is in flight.
C8_ClosedStep ==
  (ExecuteStep /\ ~isOpen /\ ~isOpen') =>
    IF command = NoCmd
    THEN /\ promises'[nextId] =
              [state |-> "rejected", value |-> Value("NotOpen", <<>>, <<>>),
               calls |-> 1]
         /\ command' = NoCmd
         /\ resolveFn' = 0
         /\ rejectFn' = 0
         /\ response' = response
         /\ timers' = timers
         /\ timeoutFn' = timeoutFn
         /\ wire' = wire
    ELSE promises'[nextId].value.err = "Busy"

C8_NotOpen == [][C8_ClosedStep]_vars

\* A call rejected with NotOpen, and a call rejected with Busy on a closed
\* port whose command is still in flight.
C8_Witness ==
  /\ ~isOpen
  /\ command # NoCmd
  /\ \E i, j \in Ids :
       /\ promises[i].value.err = "NotOpen"
       /\ j > command.id
       /\ promises[j].value.err = "Busy"

\* C9: a command in flight whose write failed with an I/O error is
\* rejected and the slot cleared.  (The link is down exactly when the write
\* of the command in flight failed.)
C9_WriteErrorRejects ==
  \A i \in Ids :
    (~linkUp /\ command.id = i)
      ~> (promises[i].state = "rejected" /\ command = NoCmd)

\* C10: the bytes are submitted only when the first command of
\* writeBinaryShortBurstData was resolved by a line matching ^READY (so
\* never after it was rejected); they are the payload followed by its
\* checksum, and the command that carries them has no timeout.
C10_BytesStep ==
  (ExecuteStep /\ command'.id = nextId /\ command'.kind = "buffer") =>
    /\ wb.pc = "phase1"
    /\ promises[wb.id].state = "resolved"
    /\ test(READY_REGEXP, promises[wb.id].value.line)
    /\ command'.data = withChecksum(wb.buffer)
    /\ command'.timeoutMs = INDEFINITE_TIMEOUT
    /\ nextId \notin timers'
    /\ (wire' # wire =>
          wire'[Len(wire')].bytes = withChecksum(wb.buffer))

C10_BytesAfterReady ==
  /\ [][C10_BytesStep]_vars
  /\ [][\A i \in Ids :
          (command'.id = i /\ command'.kind = "buffer") => i \notin timers']_vars

\* The bytes A B C and their checksum 0 198 have reached the modem.
C10_Witness ==
  /\ wb.pc = "phase2"
  /\ wire # <<>>
  /\ Head(wire).cmd.kind = "buffer"
  /\ Head(wire).bytes = <<65, 66, 67, 0, 198>>
  /\ command.id = wb.id
  /\ timers = {}

\* C11: the bytes written after READY are the message followed by the two
\* bytes of (the sum of its bytes) mod 2^16, the high byte first, and
\* calculateChecksum gives the same two bytes.
C11_ChecksumStep ==
  (ExecuteStep /\ command'.id = nextId /\ command'.kind = "buffer") =>
    LET m == wb.buffer
        s == byteSum(m) % 65536
        two == <<s \div 256, s % 256>>
    IN  /\ Len(m) \in 1..(MaxPayload + 1)
        /\ \A i \in 1..Len(m) : m[i] \in 0..255
        /\ command'.data = m \o two
        /\ calculateChecksum(m) = two
        /\ (wire' # wire => wire'[Len(wire')].bytes = m \o two)

C11_Checksum == [][C11_ChecksumStep]_vars

\* A message of the greatest length whose sum exceeds 2^16 has been written
\* with its checksum.
C11_Witness ==
  /\ wb.pc = "phase2"
  /\ Len(wb.buffer) = MaxPayload
  /\ byteSum(wb.buffer) >= 65536
  /\ wire # <<>>
  /\ Head(wire).cmd.kind = "buffer"
  /\ Len(Head(wire).bytes) = MaxPayload + 2

\* C12: writeBinaryShortBurstData resolves exactly when the line that
\* resolved the command carrying the bytes has code 0; for the codes 1, 2
\* and 3 it is rejected with an Error whose message ends with the
\* description of the code (the one of 2 names the checksum); it is
\* rejected when either command is rejected; and once settled the outcome
\* of the call does not change.
C12_SettleStep ==
  LET p == promises[wb.id]
      code == parseInt(p.value.line)
  IN  /\ (wb.pc = "phase2" /\ wb'.pc \in {"resolved", "rejected"}) =>
           /\ (wb'.pc = "resolved") <=> (p.state = "resolved" /\ code = 0)
           /\ (p.state = "resolved" /\ code # 0) =>
                /\ code \in 1..3
                /\ wb'.error = <<WRITE_ERROR, lookupWriteBinaryResult(code)>>
                /\ (code = 2 =>
                      wb'.error[2] = "SBD message checksum sent from DTE does not match the checksum calculated by the device")
      /\ (wb.pc = "phase1" /\ wb'.pc # "phase1") =>
          IF p.state = "resolved" THEN wb'.pc = "phase2"
          ELSE wb'.pc = "rejected"
      /\ (wb.pc \in {"resolved", "rejected"} /\ wb'.pc # "phase1") =>
          wb' = wb

C12_WriteResult == [][C12_SettleStep]_vars

\* A write the modem answered with the code 2 has been rejected with the
\* description that names the checksum.
C12_Witness ==
  /\ wb.pc = "rejected"
  /\ promises[wb.id].state = "resolved"
  /\ promises[wb.id].value.line = <<"2">>
  /\ wb.error = <<WRITE_ERROR, lookupWriteBinaryResult(2)>>

(***************************************************************************)
(* The send pipeline.                                                      *)
(***************************************************************************)
\* The commands of the MT read, which a send issues between the session and
\* the clearing of the MO buffer when a message is waiting.
ReadCommands ==
  {readShortBurstTextData(INDEFINITE_TIMEOUT).data,
   clearMTBuffer(DEFAULT_SIMPLE_TIMEOUT_MS).data}

\* The commands a send has issued, those of the MT read left out.
MainIssued ==
  SelectSeq(snd.issued, LAMBDA data : data \notin ReadCommands)

\* Whether data is the command at place i of a send of the given kind.
IsStep(kind, i, data) ==
  CASE i = 1 /\ kind = "text" ->
         startsWith(data, <<"A", "T", "+", "S", "B", "D", "W", "T", "=">>)
    [] i = 1 /\ kind = "binary" ->
         startsWith(data, <<"A", "T", "+", "S", "B", "D", "W", "B", "=">>)
    [] i = 2 -> data = <<"A", "T", "+", "C", "I", "E", "R", "=", "1", ",", "1", ",", "0", ",", "0">>
    [] i = 3 -> data = <<"A", "T", "+", "C", "I", "E", "R", "=", "1", ",", "0", ",", "0", ",", "0">>
    [] i = 4 -> data = <<"A", "T", "+", "S", "B", "D", "I", "X", "A">>
    [] i = 5 -> data = <<"A", "T", "+", "S", "B", "D", "D", "0">>
    [] OTHER -> FALSE

\* The send has passed a command to #execute in this step.
SendIssues == Len(snd'.issued) > Len(snd.issued)

\* The step the send waits for has resolved; for the binary write, both of
\* its commands have and the result code was 0.
StepResolved ==
  IF snd.pc = "binaryWrite"
  THEN wb.pc = "resolved" /\ promises[wb.id].state = "resolved"
  ELSE promises[snd.id].state = "resolved"

C13_Step ==
  /\ (SendIssues /\ snd.pc # "idle"
        /\ snd'.issued[Len(snd'.issued)] \notin ReadCommands)
       => StepResolved
  /\ (snd.pc = "binaryWrite" /\ snd' = snd /\ ExecuteStep)
       => /\ wb.pc = "phase1" /\ wb'.pc = "phase2"
          /\ promises[wb.id].state = "resolved"
  /\ (snd.pc \in {"write", "wait", "disable", "session", "clearMO"}
        /\ promises[snd.id].state = "rejected"
        /\ snd'.pc # snd.pc)
       => /\ snd'.pc = "rejected"
          /\ snd'.outcome.state = "rejected"
          /\ snd'.outcome.from = snd.id
          /\ snd'.outcome.err = promises[snd.id].value.err
          /\ ~SendIssues
  /\ (snd.pc = "binaryWrite" /\ wb.pc = "rejected" /\ snd'.pc # snd.pc)
       => /\ snd'.pc = "rejected"
          /\ snd'.outcome.from = wb.id
          /\ ~SendIssues
  /\ snd.pc \in {"resolved", "rejected"}
       => /\ snd'.issued = snd.issued
          /\ snd'.outcome = snd.outcome
          /\ snd'.pc = snd.pc

\* C13: a send issues the write, AT+CIER=1,1,0,0, AT+CIER=1,0,0,0,
\* AT+SBDIXA and AT+SBDD0 in this order, each at most once and only when
\* the step before it has resolved; when a step is rejected the send is
\* rejected with that failure and issues nothing more.
C13_PipelineOrder ==
  /\ [](/\ Len(MainIssued) <= 5
        /\ \A i \in 1..Len(MainIssued) : IsStep(snd.kind, i, MainIssued[i]))
  /\ [][C13_Step]_vars

C13_Witness ==
  /\ snd.pc = "resolved"
  /\ snd.kind = "binary"
  /\ Len(MainIssued) = 5
  /\ \A i \in 1..5 : IsStep("binary", i, MainIssued[i])

\* The line is a report of a signal quality of min or more.
Sufficient(line, min) == \E q \in min..5 : line = LINE_CIEV(q)

C14_Step ==
  /\ (snd.pc = "wait" /\ snd'.pc = "wait"
        /\ promises[snd.id].state = "pending"
        /\ promises'[snd.id].state = "resolved")
       => Sufficient(promises'[snd.id].value.line, snd.signalQuality)
  /\ (snd.pc = "wait" /\ promises[snd.id].state = "resolved"
        /\ snd' # snd)
       => /\ snd'.pc = "disable"
          /\ snd'.issued = Append(snd.issued,
               <<"A", "T", "+", "C", "I", "E", "R", "=", "1", ",", "0", ",", "0", ",", "0">>)
  /\ (snd.pc # "disable" /\ snd'.pc = "disable")
       => /\ snd.pc = "wait"
          /\ promises[snd.id].state = "resolved"
          /\ Sufficient(promises[snd.id].value.line, snd.signalQuality)
  /\ (snd.pc # "session" /\ snd'.pc = "session")
       => /\ snd.pc = "disable"
          /\ promises[snd.id].state = "resolved"
          /\ promises[snd.id].value.line = LINE_OK

\* C14: the AT+CIER=1,1,0,0 of waitForNetwork resolves only on a line
\* +CIEV:0,q with q at least the signal quality asked for; the send then
\* issues AT+CIER=1,0,0,0 and goes on to the session only when that command
\* has resolved, so the session is never initiated before a sufficient
\* report was seen.
C14_WaitForNetwork == [][C14_Step]_vars

\* A send that asked for quality 3 has reached the session on a report of 4.
C14_Witness ==
  /\ snd.pc = "session"
  /\ snd.signalQuality = 3
  /\ \E i \in DOMAIN promises :
       /\ promises[i].state = "resolved"
       /\ promises[i].value.line = LINE_CIEV(4)

\* The response that carries the numbers of the line +SBDIX: mo, 42, mt, 7,
\* 11, 0.
ResponseOf(mo, mt) == SessionResponse(<<mo, 42, mt, 7, 11, 0>>)

\* The .then of initiateSessionExtended runs in this step.
SessionStep ==
  /\ snd.pc = "session"
  /\ promises[snd.id].state = "resolved"
  /\ snd'.pc # "session"

C15_Step ==
  \A mo \in 0..18, mt \in 0..2 :
    (SessionStep /\ promises[snd.id].value.text = LINE_SBDIX(mo, mt) /\ mo > 4)
      => /\ snd'.pc = "rejected"
         /\ snd'.outcome = Outcome("rejected", "SBDSessionError", 0,
                                    <<ResponseOf(mo, mt)>>)
         /\ ~SendIssues
         /\ ~ExecuteStep
         /\ wire' = wire

\* C15: when the +SBDIX line has an MO status above 4 the session, and with
\* it the send, is rejected with an SBDSessionError that carries the
\* response built from the six numbers of the line, and the MT buffer is not
\* read: no command is issued by that step or after it.
C15_SessionError ==
  /\ [][C15_Step]_vars
  /\ [](snd.outcome.err = "SBDSessionError"
          => \A i \in 1..Len(snd.issued) : snd.issued[i] \notin ReadCommands)

\* The send was rejected on +SBDIX: 18, 42, 1, 7, 11, 0, with a message
\* waiting at the gateway.
C15_Witness ==
  /\ snd.pc = "rejected"
  /\ snd.outcome.err = "SBDSessionError"
  /\ snd.outcome.value = <<ResponseOf(18, 1)>>

\* The .then of readShortBurstTextData runs in this step.
ReadStep ==
  /\ snd.pc = "read"
  /\ promises[snd.id].state = "resolved"
  /\ snd'.pc # "read"

LastIssued(w) == w.issued[Len(w.issued)]

C16_Step ==
  /\ \A mo \in 0..4, mt \in 0..2 :
       (SessionStep /\ promises[snd.id].value.text = LINE_SBDIX(mo, mt))
         => /\ (snd'.pc = "read") <=> (mt = 1)
            /\ (mt = 1)
                 => /\ SendIssues
                    /\ LastIssued(snd') =
                         readShortBurstTextData(INDEFINITE_TIMEOUT).data
                    /\ command'.id = nextId
                    /\ command'.data = LastIssued(snd')
  /\ (snd.pc = "session" /\ promises[snd.id].state = "resolved"
        /\ ~SessionStep)
       => ~ExecuteStep /\ promises' = promises
  /\ ReadStep
       => /\ snd'.inbound = Append(snd.inbound, LINE_PAYLOAD)
          /\ Len(SelectSeq(emitted', LAMBDA e : e = "inbound-message")) = 1
          /\ snd'.pc = "clearMT"
          /\ LastIssued(snd') = clearMTBuffer(DEFAULT_SIMPLE_TIMEOUT_MS).data
  /\ (snd.pc # "read" \/ promises[snd.id].state # "resolved")
       => snd'.inbound = snd.inbound
  /\ (snd.pc = "clearMT" /\ snd'.pc = "clearMO")
       => /\ promises[snd.id].state = "resolved"
          /\ promises[snd.id].value.text # <<"1">>
  /\ (snd'.pc = "clearMO" /\ snd.pc # "clearMO" /\ snd'.result # <<>>
        /\ snd'.result[1].mtStatus = 1)
       => snd.pc = "clearMT"
  /\ (snd'.pc = "resolved" /\ snd'.result # <<>>
        /\ snd'.result[1].mtStatus = 1)
       => Len(snd'.inbound) = 1

\* C16: after a session with an MO status of 4 or less the MT buffer is read
\* if and only if the MT status is 1; the read is issued in the step that
\* handles the session's result, inbound-message is emitted once with the
\* message the modem held, then AT+SBDD1 is issued, and AT+SBDD0 is issued
\* only when AT+SBDD1 has resolved, so before the send resolves.
C16_ReadAndClear == [][C16_Step]_vars

\* The command that reads the MT buffer in the form of a send of the kind.
ReadCommandOf(kind) ==
  IF kind = "text"
  THEN <<"A", "T", "+", "S", "B", "D", "R", "T">>
  ELSE <<"A", "T", "+", "S", "B", "D", "R", "B">>

C17_Step ==
  (SessionStep /\ snd'.pc = "read")
    => /\ LastIssued(snd') = ReadCommandOf(snd.kind)
       /\ command'.data = ReadCommandOf(snd.kind)

\* C17: the MT read of a session reads the buffer in the form of the send
\* that started the session: AT+SBDRT for sendTextMessage, AT+SBDRB for
\* sendBinaryMessage.
C17_ReadMatchesVariant == [][C17_Step]_vars

\* The send has issued AT+SBDD0.
ClearMOIssued ==
  \E i \in 1..Len(snd.issued) :
    snd.issued[i] = <<"A", "T", "+", "S", "B", "D", "D", "0">>

\* C18: a send whose session gave a result with an MO status of 4 or less
\* does not settle without having issued AT+SBDD0, whether the MT read
\* after the session succeeded or failed.
C18_ClearMOAlways ==
  (snd.pc \in {"resolved", "rejected"} /\ snd.result # <<>>)
    => ClearMOIssued

C19_Step ==
  /\ (snd.pc # "resolved" /\ snd'.pc = "resolved")
       => /\ snd.pc = "clearMO"
          /\ LastIssued(snd) = <<"A", "T", "+", "S", "B", "D", "D", "0">>
          /\ promises[snd.id].state = "resolved"
          /\ promises[snd.id].value.line = LINE_OK
          /\ promises[snd.id].value.text = <<"0">>
          /\ snd'.outcome.state = "resolved"
          /\ \E i \in DOMAIN promises, mo \in 0..4, mt \in 0..2 :
               /\ promises[i].state = "resolved"
               /\ promises[i].value.text = LINE_SBDIX(mo, mt)
               /\ snd'.outcome.value = <<ResponseOf(mo, mt)>>
  /\ (snd.pc = "clearMO" /\ snd'.pc # "clearMO"
        /\ \/ promises[snd.id].state = "rejected"
           \/ promises[snd.id].value.text = <<"1">>)
       => /\ snd'.pc = "rejected"
          /\ snd'.outcome.state = "rejected"

\* C19: a send resolves only in the step that follows a resolved AT+SBDD0
\* whose answer was 0 and OK, and it resolves with the response built from
\* the +SBDIX line of its session; when AT+SBDD0 is rejected or answers 1
\* the send is rejected.
C19_ResolveAfterClear ==
  /\ [][C19_Step]_vars
  /\ [](snd.pc = "resolved" => ClearMOIssued /\ snd.outcome.state = "resolved")

\* A send has resolved with the result of a session that had a message to
\* read.
C19_Witness ==
  /\ snd.pc = "resolved"
  /\ snd.outcome.value = <<ResponseOf(0, 1)>>
  /\ ClearMOIssued

\* The send has issued its first command and has not settled.
Running == snd.pc \notin {"idle", "resolved", "rejected"}

Busy(p) == p.state = "rejected" /\ p.value.err = "Busy"

C20_Step ==
  /\ (Running /\ snd'.foreign = snd.foreign + 1) => Busy(promises'[nextId])
  /\ (Running /\ snd.listener = 0 /\ snd'.listener # 0)
       => Busy(promises'[snd'.listener])
  /\ (Running /\ snd'.pc \in {"wait", "disable", "session", "read", "clearMT",
                               "clearMO"})
       => ~Busy(promises'[snd'.id])
  /\ (snd'.pc = "binaryWrite" /\ wb'.pc = "phase2")
       => ~Busy(promises'[wb'.id])

\* C20: from the first command of a send until the send settles, a command
\* another caller issues is rejected with Busy, and no command of the send
\* after the first is rejected with Busy.
C20_PipelineExclusive == [][C20_Step]_vars

(***************************************************************************)
(* init().                                                                 *)
(***************************************************************************)
MaxBootCmds == 8

\* The controller as constructed, with the calls numbered over the set ids.
Constructed(ids) ==
  /\ isOpen = FALSE
  /\ command = NoCmd
  /\ response = <<>>
  /\ resolveFn = 0
  /\ rejectFn = 0
  /\ timeoutFn = 0
  /\ timers = {}
  /\ promises = [i \in ids |-> NoPromise]
  /\ wire = <<>>
  /\ lineFor = 0
  /\ linkUp = TRUE
  /\ emitted = <<>>
  /\ nextId = 1
  /\ boot = [pc |-> "idle", step |-> 0, id |-> 0]
  /\ wb = NoWrite
  /\ snd = NoSend

\* init() on a controller just constructed, run to its end, with the
\* modem's answers, the timers and close().
BootNext ==
  \/ InitCall
  \/ InitThen
  \/ InitCatch
  \/ Line
  \/ TimerFire
  \/ Close

BootSpec == Constructed(1..MaxBootCmds) /\ [][BootNext]_vars

\* The commands of init() in the order stated for it.
InitOrder ==
  <<<<"A", "T", "&", "K", "0">>,
    <<"A", "T", "E", "0">>,
    <<"A", "T", "+", "C", "I", "E", "R", "=", "1", ",", "0", ",", "0", ",", "0">>,
    <<"A", "T", "+", "S", "B", "D", "D", "2">>,
    <<"A", "T", "+", "S", "B", "D", "A", "R", "E", "G", "=", "1">>,
    <<"A", "T", "+", "S", "B", "D", "M", "T", "A", "=", "1">>,
    <<"A", "T", "+", "C", "R", "I", "S">>>>

\* init() passes a command to #execute in this step.
InitIssues == boot'.pc = "running" /\ boot'.id # boot.id

C21_Step ==
  /\ InitIssues
       => /\ boot'.step \in 1..Len(InitOrder)
          /\ boot'.step = 1 => ~isOpen /\ isOpen'
          /\ boot'.step > 1
               => /\ boot.pc = "running"
                  /\ boot'.step = boot.step + 1
                  /\ promises[boot.id].state = "resolved"
          /\ command'.id = boot'.id
               => command'.data = InitOrder[boot'.step]
  /\ (boot.pc = "running" /\ promises[boot.id].state = "rejected"
        /\ boot' # boot)
       => boot'.pc = "rejected" /\ ~ExecuteStep
  /\ (boot.pc = "running" /\ boot'.pc = "resolved")
       => /\ boot.step = Len(InitOrder)
          /\ promises[boot.id].state = "resolved"

\* C21: init() opens the port and issues AT&K0, ATE0, AT+CIER=1,0,0,0,
\* AT+SBDD2, AT+SBDAREG=1, AT+SBDMTA=1 and AT+CRIS in this order, each when
\* the one before it has resolved; a rejected step rejects init() and
\* nothing more is issued; init() resolves when the last of them has
\* resolved.
C21_InitOrder == [][C21_Step]_vars

(***************************************************************************)
(* The scenario of a text send with a message waiting at the gateway.      *)
(***************************************************************************)
\* The scripted modem: the lines it gives in answer to a command.
ScenarioAnswer(cmd) ==
  CASE cmd.name = "waitForNetwork" -> <<LINE_CIEV(3), LINE_OK>>
    [] cmd.name = "initiateSessionExtended" -> <<LINE_SBDIX(1, 1), LINE_OK>>
    [] cmd.name = "readShortBurstTextData" -> <<LINE_PAYLOAD, LINE_OK>>
    [] OTHER -> <<LINE_OK>>

\* A line of the scripted modem's answer to the oldest command it has not
\* answered in full arrives.  Lines of one answer may arrive in one chunk,
\* so a line is not held back by a step that is due.
ScenarioLine ==
  /\ wire # <<>>
  /\ LET entry == Head(wire)
         answer == ScenarioAnswer(entry.cmd)
         s == handleData(Ctl, answer[entry.said + 1])
     IN  Becomes([s EXCEPT
           !.wire = IF entry.said + 1 = Len(answer)
                    THEN Tail(wire)
                    ELSE [wire EXCEPT ![1].said = @ + 1],
           !.lineFor = entry.id])
  /\ UNCHANGED <<linkUp, nextId, boot, wb, snd>>

\* sendTextMessage("HELLO", { signalQuality: 2 }).
ScenarioSend ==
  /\ snd.pc = "idle"
  /\ Issue([snd EXCEPT !.kind = "text", !.signalQuality = 2],
           writeShortBurstTextData(<<"H", "E", "L", "L", "O">>,
                                   DEFAULT_SIMPLE_TIMEOUT_MS),
           "write")
  /\ UNCHANGED <<linkUp, boot, wb>>

ScenarioNext ==
  \/ ScenarioSend
  \/ ScenarioLine
  \/ SendWritten
  \/ SendSignal
  \/ SendConnected
  \/ SendSession
  \/ SendRead
  \/ SendClearedMT
  \/ SendClearedMO
  \/ SendCatch
  \/ TimerTask
  \/ Ring

ScenarioSpec == Opened(SendIds) /\ [][ScenarioNext]_vars

\* The send was rejected by a timer that fired or through a command that a
\* listener of inbound-message issued: neither is part of the scenario.
OutsideScenario ==
  \/ snd.listener # 0
  \/ \E i \in DOMAIN promises :
       promises[i].state = "rejected" /\ promises[i].value.err = "Timeout"

C22_Step ==
  ~OutsideScenario'
    => /\ snd'.pc # "rejected"
       /\ ReadStep
            => /\ snd'.inbound = <<LINE_PAYLOAD>>
               /\ Len(SelectSeq(emitted', LAMBDA e : e = "inbound-message")) = 1
       /\ ~ReadStep => snd'.inbound = snd.inbound
       /\ snd'.pc = "resolved"
            => /\ snd'.outcome.state = "resolved"
               /\ Len(snd'.outcome.value) = 1
               /\ snd'.outcome.value[1].moStatus = 1
               /\ snd'.outcome.value[1].mtStatus = 1
               /\ snd'.outcome.value[1].mtMessageLength = 11
               /\ snd'.inbound = <<LINE_PAYLOAD>>

\* C22: in the scenario, whatever the order in which the lines arrive and
\* the commands are issued, the send is not rejected, inbound-message is
\* emitted once and with WORLD, and the send resolves with MO status 1, MT
\* status 1 and MT length 11.
C22_Scenario == [][C22_Step]_vars

\* C23: when the timer of a waitForNetwork called with a timeout expires,
\* the slot is cleared and the call rejects with Timeout; from then on the
\* wait issues no command, so AT+CIER=1,0,0,0 is not sent, and its promise
\* rejects with that Timeout.
WaitExpired ==
  /\ snd.kind = "wait"
  /\ snd.pc = "wait"
  /\ snd.id \in timers
  /\ snd.id \notin timers'
  /\ lineFor' = 0

WaitTimedOut ==
  /\ snd.kind = "wait"
  /\ snd.pc = "wait"
  /\ promises[snd.id].state = "rejected"
  /\ promises[snd.id].value.err = "Timeout"

C23_Step ==
  /\ WaitExpired =>
       /\ command' = NoCmd
       /\ resolveFn' = 0
       /\ rejectFn' = 0
       /\ response' = <<>>
       /\ promises'[snd.id].state = "rejected"
       /\ promises'[snd.id].value.err = "Timeout"
       /\ wire' = wire
       /\ snd' = snd
  /\ WaitTimedOut =>
       /\ snd'.issued = snd.issued
       /\ wire' = wire
       /\ snd' # snd =>
            /\ snd'.pc = "rejected"
            /\ snd'.outcome = Outcome("rejected", "Timeout", snd.id, <<>>)

C23_WaitTimeout == [][C23_Step]_vars

\* The wait was rejected with the Timeout of its AT+CIER=1,1,0,0, the one
\* command it issued.
C23_Witness ==
  /\ snd.kind = "wait"
  /\ snd.pc = "rejected"
  /\ snd.outcome.err = "Timeout"
  /\ snd.issued = <<waitForNetwork(1, DEFAULT_SIMPLE_TIMEOUT_MS).data>>

\* C24: when the modem answers the query with the mode that was set
\* (+SBDMTA:1 after ringAlertEnable, +SBDMTA:0 after ringAlertDisable, then
\* OK), getRingAlertEnabled yields true after ringAlertEnable and false
\* after ringAlertDisable.
ModeSet == IF snd.kind = "ringAlertEnable" THEN 1 ELSE 0

C24_Step ==
  (/\ snd.pc = "get"
   /\ snd'.pc = "resolved"
   /\ promises[snd.id].value.text = LINE_SBDMTA(ModeSet))
    => snd'.outcome.value = <<snd.kind = "ringAlertEnable">>

C24_RingAlertRoundTrip == [][C24_Step]_vars

\* C25: a message written with writeBinaryShortBurstData, copied with
\* transferMOBufferToMTBuffer and read with readShortBurstBinaryData, the
\* modem answering the read with the envelope of the message and OK, comes
\* back as it was written: the read resolves with the message, and the
\* caller gets what the read resolved with.
C25_Step ==
  /\ (/\ snd.kind = "loopback"
      /\ snd.pc = "readBinary"
      /\ promises[snd.id].state = "pending"
      /\ promises'[snd.id].state = "resolved"
      /\ lineFor' = snd.id)
       => promises'[snd.id].value.text = wb.buffer
  /\ (/\ snd.kind = "loopback"
      /\ snd.pc = "readBinary"
      /\ snd'.pc = "resolved")
       => snd'.outcome.value = <<promises[snd.id].value.text>>

C25_BinaryRoundTrip == [][C25_Step]_vars

\* C26: getRingIndicationStatus, answered +CRIS:<tri>,<sri> and OK, yields
\* the status sri, and in yielding it emits ring-alert once when sri is 1
\* (the notification being on by default) and not at all when it is 0.
RingAlerts(events) ==
  Cardinality({i \in 1..Len(events) : events[i] = "ring-alert"})

C26_Step ==
  \A sri \in {0, 1} :
    (/\ snd.pc = "ringStatus"
     /\ snd'.pc # "ringStatus"
     /\ promises[snd.id].value.text = LINE_CRIS(0, sri))
      => /\ snd'.pc = "resolved"
         /\ snd'.outcome.value = toString(sri)
         /\ RingAlerts(emitted') = sri

C26_RingIndicationStatus == [][C26_Step]_vars

\* C27: a line that is not a ring alert, handled with a command in flight,
\* is tested against the error pattern first: an error line rejects the
\* command with the response as it was, the line not appended.  A line that
\* is no error line is appended when it matches the buffer pattern and is
\* not the echo, and after that tested against the success pattern: a line
\* that matches both patterns is in the response the command resolves with.
Appended(cmd, resp, data) ==
  IF cmd.bufferRegex.def /\ test(cmd.bufferRegex, data) /\ notEcho(cmd, data)
  THEN appendLine(resp, data)
  ELSE resp

C27_Step ==
  (command # NoCmd /\ lineFor' # 0) =>
    LET before == promises[command.id]
        after == promises'[command.id]
        data == after.value.line
    IN  /\ before.state = "pending"
        /\ after.state = "rejected" =>
             /\ after.value.err = "CommandError"
             /\ test(errorRegexOf(command), data)
             /\ after.value.text = response
        /\ after.state = "resolved" =>
             /\ ~test(errorRegexOf(command), data)
             /\ test(command.successRegex, data)
             /\ after.value.text = Appended(command, response, data)
        /\ after.state = "pending" =>
             /\ command' = command
             /\ \E line \in ModemLines(Head(wire).cmd) :
                  /\ ~test(errorRegexOf(command), line)
                  /\ ~test(command.successRegex, line)
                  /\ response' = Appended(command, response, line)

C27_HandleOrder == [][C27_Step]_vars

\* A command resolved by a line that matched its buffer pattern and its
\* success pattern: the response ends with that line.
C27_Witness ==
  \E i \in DOMAIN promises :
    /\ promises[i].state = "resolved"
    /\ promises[i].value.line = LINE_OK
    /\ promises[i].value.text = appendLine(LINE_VERSION, LINE_OK)

\* C28: a line that is not a ring alert and comes with no command in
\* flight, or matches none of the error, buffer and success patterns of the
\* command in flight, is dropped: no promise settles, no ring-alert or
\* inbound-message is emitted, and the slot, the response and the timer stay
\* as they were; with no command in flight a warning is logged.
Kept ==
  /\ promises' = promises
  /\ command' = command
  /\ response' = response
  /\ resolveFn' = resolveFn
  /\ rejectFn' = rejectFn
  /\ timeoutFn' = timeoutFn
  /\ timers' = timers
  /\ \A i \in 1..Len(emitted') :
       emitted'[i] \notin {"ring-alert", "inbound-message"}

MatchesNone(cmd, data) ==
  /\ ~test(errorRegexOf(cmd), data)
  /\ ~(cmd.bufferRegex.def /\ test(cmd.bufferRegex, data))
  /\ ~test(cmd.successRegex, data)

C28_Step ==
  \A data \in ModemLines(Head(wire).cmd) :
    LineOf(data) =>
      /\ command = NoCmd => Kept /\ emitted' = <<"WARN">>
      /\ (command # NoCmd /\ MatchesNone(command, data)) =>
           Kept /\ emitted' = <<>>

C28_Discarded == [][wire # <<>> => C28_Step]_vars

\* The OK that follows the result of the binary write came before the
\* result: the command is in flight and the line was dropped.
C28_Witness ==
  /\ command # NoCmd
  /\ command.kind = "buffer"
  /\ lineFor = command.id
  /\ promises[command.id].state = "pending"

\* C29: the response a command resolves with is the lines that came while it
\* was in flight, matched its buffer pattern and were not its echo, in the
\* order they came and joined by one newline each; it is the empty string
\* when the command has no buffer pattern or no line matched, and the
\* resolution emits no event.
RECURSIVE splitLines(_)
splitLines(text) ==
  LET head == splitHead(text, "\n")
  IN  IF Len(head) = Len(text) THEN <<text>>
      ELSE <<head>> \o splitLines(SubSeq(text, Len(head) + 2, Len(text)))

BufferedLine(cmd, data) ==
  cmd.bufferRegex.def /\ test(cmd.bufferRegex, data) /\ cmd.data # data

Joined(cmd, resp, data) ==
  IF ~BufferedLine(cmd, data) THEN resp
  ELSE IF resp = <<>> THEN data
  ELSE resp \o <<"\n">> \o data

C29_Step ==
  \A data \in ModemLines(Head(wire).cmd) :
    (LineOf(data) /\ command # NoCmd) =>
      LET after == promises'[command.id]
          text == after.value.text
      IN  /\ after.state = "pending" =>
               response' = Joined(command, response, data)
          /\ after.state = "resolved" =>
               /\ text = Joined(command, response, data)
               /\ text # <<>> =>
                    \A k \in 1..Len(splitLines(text)) :
                      BufferedLine(command, splitLines(text)[k])
               /\ ~command.bufferRegex.def => text = <<>>
               /\ emitted' = <<>>

C29_Response ==
  /\ [](command = NoCmd => response = <<>>)
  /\ [][wire # <<>> => C29_Step]_vars

\* A command without a buffer pattern resolved with the empty string, and a
\* command resolved with as many lines as the model lets it buffer.
C29_Witness ==
  /\ \E i \in DOMAIN promises :
       /\ promises[i].state = "resolved"
       /\ promises[i].value.text = <<>>
       /\ promises[i].value.line = LINE_OK
  /\ \E i \in DOMAIN promises :
       /\ promises[i].state = "resolved"
       /\ lineCount(promises[i].value.text) = MaxBuffered

\* C30: the timer of a command is disarmed when the command is completed:
\* an armed timer is the timer of the pending command in flight, a settled
\* command is never settled again, and the slot is cleared without a line
\* only by the timer of the command that holds it.
C30_Step ==
  /\ \A i \in Ids : Settled(i) => promises'[i] = promises[i]
  /\ (command # NoCmd /\ lineFor' = 0 /\ command'.id # command.id) =>
       /\ command.id \in timers
       /\ promises[command.id].state = "pending"
       /\ promises'[command.id].value.err = "Timeout"

C30_TimerDisarmed ==
  /\ [](\A h \in timers : command.id = h /\ ~Settled(h))
  /\ [][C30_Step]_vars

\* The command whose timer was armed last was resolved by a line, and a
\* later command, which has no timer of its own, is in flight.
C30_Witness ==
  /\ timeoutFn # 0
  /\ promises[timeoutFn].state = "resolved"
  /\ command # NoCmd
  /\ command.id > timeoutFn
  /\ command.timeoutMs <= 0
  /\ timers = {}

\* C31: on a +SBDIX line with an MO status of 4 or less, whatever its MT
\* status, the session is not rejected and yields the response built from
\* the line, never undefined; with an MT status of 0 or 2 nothing is read
\* and the send goes on to clear the MO buffer.
C31_Step ==
  \A mo \in 0..4, mt \in 0..3 :
    (SessionStep /\ promises[snd.id].value.text = LINE_SBDIX(mo, mt))
      => /\ snd'.pc # "rejected"
         /\ snd'.result = <<ResponseOf(mo, mt)>>
         /\ mt \in {0, 2} => snd'.pc = "clearMO"

C31_SessionResult == [][C31_Step]_vars

\* C34: in every session response, carried by a send in progress or by the
\* error a send was rejected with, the text of the MO status is the entry
\* of the MO table for the MO status and the text of the MT status is the
\* entry of the MT table for the MT status: for the MT status 1, the text
\* MT message was received during the MO transfer.
TextsMatch(r) ==
  /\ r.moStatusText = lookupMOStatus(r.moStatus)
  /\ r.mtStatusText = lookupMTStatus(r.mtStatus)
  /\ r.mtStatus = 1 =>
       r.mtStatusText = "MT message was received during the MO transfer"

C34_StatusTexts ==
  /\ \A i \in 1..Len(snd.result) : TextsMatch(snd.result[i])
  /\ \A i \in 1..Len(snd.outcome.value) : TextsMatch(snd.outcome.value[i])

\* C32: close() fails the command in flight and leaves the slot empty, and
\* the first command after the port is opened again is not rejected with
\* Busy.
C32_Step ==
  /\ (isOpen /\ ~isOpen') =>
       /\ command' = NoCmd
       /\ command # NoCmd => promises'[command.id].state = "rejected"
  /\ (~isOpen /\ isOpen') => promises'[nextId].value.err # "Busy"

C32_CloseClearsSlot == [][C32_Step]_vars

\* C33: the command in flight and its resolve and reject functions are set
\* together or not at all; when they are not set the response is empty and
\* no timer is armed; so a command that takes the slot starts with an empty
\* response.
C33_Step == (command = NoCmd /\ command' # NoCmd) => response' = <<>>

C33_AllOrNothing ==
  /\ [](\/ /\ command # NoCmd
            /\ resolveFn = command.id
            /\ rejectFn = command.id
         \/ /\ command = NoCmd
            /\ resolveFn = 0
            /\ rejectFn = 0
            /\ response = <<>>
            /\ timers = {})
  /\ [][C33_Step]_vars

\* A command is in flight, with nothing buffered yet, after a command that
\* resolved with lines buffered.
C33_Witness ==
  \E i \in Ids :
    /\ promises[i].state = "resolved"
    /\ promises[i].value.text # <<>>
    /\ command # NoCmd
    /\ command.id > i
    /\ response = <<>>

\* C35: a send that was called, whatever timeoutMs it was given, is
\* eventually resolved or rejected, also when the modem stops answering.
C35_SendSettles == (snd.pc # "idle") ~> (snd.pc \in {"resolved", "rejected"})

\* The .then of readShortBurstTextData has emitted inbound-message in this
\* step.
InboundEmitted ==
  /\ Len(emitted') = Len(emitted) + 1
  /\ emitted'[Len(emitted')] = "inbound-message"
  /\ Len(snd'.inbound) = Len(snd.inbound) + 1

C36_Step ==
  /\ (SendIssues
        /\ LastIssued(snd') = clearMTBuffer(DEFAULT_SIMPLE_TIMEOUT_MS).data)
       => /\ ReadStep
          /\ InboundEmitted
  /\ (snd.pc = "read" /\ promises[snd.id].state = "rejected"
        /\ snd'.pc # "read")
       => /\ ~SendIssues
          /\ ~ExecuteStep
          /\ wire' = wire

\* C36: a send issues AT+SBDD1 only in the step in which the MT read has
\* resolved and inbound-message was emitted with the message; when the MT
\* read is rejected the send issues no command, so the MT buffer is left as
\* it is.
C36_NoMessageLost == [][C36_Step]_vars

C37_Step ==
  ReadStep
    => /\ promises[snd.id].value.text = LINE_PAYLOAD
       /\ snd'.inbound[Len(snd'.inbound)] = promises[snd.id].value.text

\* C37: the message readShortBurstTextData resolves with, which is the one
\* it emits with inbound-message, is the payload the modem sent between the
\* +SBDRT: header and the closing OK, with neither of the two in it.
C37_MessageIsPayload == [][C37_Step]_vars

\* The message of the send in progress.
OwnMessage == TextOf(snd.issued[1])

\* The modem starts to answer the AT+SBDIXA of the send in progress with the
\* result of a session that transferred the MO buffer.
SessionTransfers ==
  /\ snd.pc = "session"
  /\ wire # <<>>
  /\ Head(wire).id = snd.id
  /\ Head(wire).said = 0
  /\ lineFor' = snd.id
  /\ \E mt \in 0..2 : response' = LINE_SBDIX(0, mt)

C38_Step ==
  /\ SessionTransfers => snd.mo = OwnMessage
  /\ (snd'.foreign = snd.foreign + 1)
       => /\ Busy(promises'[nextId])
          /\ wire' = wire

\* C38: when the modem runs the session of a send, its MO buffer holds the
\* message of that send; a sendTextMessage called while another send is
\* running is rejected with Busy and writes nothing to the port.
C38_OwnMessage == [][C38_Step]_vars

====
